---- MODULE Spec2Model ----
(***************************************************************************)
(* Cumulative-volume-delta breakout indicator: bar aggregation, trendline  *)
(* fitting, the filter cascade and the position loop.                      *)
(*                                                                         *)
(* Numbers.  Prices, sizes and CVD values are integers (prices in ticks).  *)
(* The trendline fitter works on reals; its slopes are kept exactly as     *)
(* integer numerators over SlopeDen, and a probe slope carries its         *)
(* +/- slopeUnit*minStep offset separately (field eps).  The only thing    *)
(* the code reads of a squared error is how it compares with another one   *)
(* (errTest >= bestErr, derivative > 0); the sum of squares of             *)
(* checkTrendLine is the quadratic A*s^2 - 2*B*s + C in the slope s, so    *)
(* two of them are compared exactly by the sign of                         *)
(* (s1 - s2) * (A*(s1 + s2) - 2*B).  Rounding of IEEE doubles is not       *)
(* modelled.                                                               *)
(***************************************************************************)
EXTENDS Integers, Sequences, FiniteSets, TLC

\* ---------------------------------------------------------------- constants
WINDOW_SIZE == 5
R_MULTIPLE == 2
\* TOL_PCT = 0.001 = 1 / TolPctInv
TolPctInv == 1000
\* minStep = 1e-4 = 1 / MinStepInv
MinStepInv == 10000
\* the feasibility slack 1e-5 = 1 / FeasInv
FeasInv == 100000
\* bail-out: maxIters = y.length * 20, maxNoImprove = y.length * 5
MaxItersPerBar == 20
MaxNoImprovePerBar == 5

\* ------------------------------------------------------------ number helpers
Abs(v) == IF v < 0 THEN -v ELSE v

\* floor(a / b) for b > 0, a of either sign
FloorDiv(a, b) == IF a >= 0 THEN a \div b ELSE -((-a + b - 1) \div b)

RECURSIVE SumSeq(_)
SumSeq(s) == IF s = <<>> THEN 0 ELSE s[1] + SumSeq(Tail(s))

RECURSIVE MaxSeq(_)
MaxSeq(s) == IF Len(s) = 1 THEN s[1]
             ELSE LET m == MaxSeq(Tail(s)) IN IF s[1] >= m THEN s[1] ELSE m

RECURSIVE MinSeq(_)
MinSeq(s) == IF Len(s) = 1 THEN s[1]
             ELSE LET m == MinSeq(Tail(s)) IN IF s[1] <= m THEN s[1] ELSE m

\* Array.prototype.indexOf: the first 0-based index holding v
IndexOf(s, v) == CHOOSE i \in 0..(Len(s) - 1) :
                    /\ s[i + 1] = v
                    /\ \A j \in 0..(i - 1) : s[j + 1] # v

\* Array.prototype.slice(0, -1)
SliceInit(s) == SubSeq(s, 1, Len(s) - 1)

\* push without the shift
PushOnly(w, v) == Append(w, v)

\* push, then shift when the length exceeds WINDOW_SIZE
PushShift(w, v) == LET a == Append(w, v)
                   IN IF Len(a) > WINDOW_SIZE THEN Tail(a) ELSE a

\* ------------------------------------------------------------ slope scaling
\* optStep is StepN / StepScale; the loop halves it from 1 down to 2^-14
StepScale == 2^14

\* twice the varX of the indices 0..N-1 (the terms (2i - (N-1))^2 sum to
\* 4 * varX); a whole number for every N
VarX2(N) == SumSeq([i \in 1..N |-> (2 * (i - 1) - (N - 1)) * (2 * (i - 1) - (N - 1))]) \div 2

\* a slope is n / SlopeDen(N): the seed is covXY / varX and a step is
\* range * StepN / (N * StepScale)
SlopeDen(N) == N * VarX2(N) * StepScale

\* a probe slope is n / SlopeDen + eps * range / (N * MinStepInv); both are
\* whole multiples of 1 / (SlopeDen * ProbeMul), the offset being eps * range * ProbeOff
ProbeMul == 5^5

ProbeOff(N) == VarX2(N) * ((StepScale * ProbeMul) \div MinStepInv)

\* 1e-5 in units of 1 / (SlopeDen * ProbeMul)
FeasSlack(N) == N * VarX2(N) * ((StepScale * ProbeMul) \div FeasInv)

\* sign of ProbeMul * X + V, computed without forming the product
SignScaled(X, V) == IF X > FloorDiv(-V, ProbeMul) THEN 1
                    ELSE IF X < -FloorDiv(V, ProbeMul) THEN -1
                    ELSE 0

\* sign of ProbeMul * (A * S + G) + V for A > 0, computed without forming
\* the products
SignScaledLin(A, S, G, V) ==
    IF S > FloorDiv(FloorDiv(-V, ProbeMul) - G, A) THEN 1
    ELSE IF S < -FloorDiv(G - (-FloorDiv(V, ProbeMul)), A) THEN -1
    ELSE 0

Range(y) == MaxSeq(y) - MinSeq(y)

\* ---------------------------------------------------------- trendline fitter
\* checkTrendLine's "return -1"
Infeasible == [inf |-> TRUE, n |-> 0, eps |-> 0]

\* slope * i + intercept - y[i] for the line of slope initSlope through
\* (pivot, y[pivot]), times SlopeDen, summed index by index from the pivot
RECURSIVE GapAt(_, _, _, _)
GapAt(initSlope, y, pivot, i) ==
    LET den == SlopeDen(Len(y))
    IN IF i = pivot THEN 0
       ELSE IF i > pivot
       THEN GapAt(initSlope, y, pivot, i - 1) + (initSlope - (y[i + 1] - y[i]) * den)
       ELSE GapAt(initSlope, y, pivot, i + 1) - (initSlope - (y[i + 2] - y[i + 1]) * den)

\* what one optimizeSlope call holds fixed: its arguments support, pivot,
\* initSlope and y, and the numbers derived from them.  slopeUnit is
\* range / N.  Inside the call a slope is kept as its distance d from
\* initSlope; gap[i] is the difference "slope * i + intercept - y[i]" at
\* d = 0, and the squared error of the line at distance d is
\* A*d^2 + 2*G*d + C
FitCtx(support, pivot, initSlope, y) ==
    LET N == Len(y)
        gap == [i \in 1..N |-> GapAt(initSlope, y, pivot, i - 1)]
    IN [support |-> support,
        pivot |-> pivot,
        init |-> initSlope,
        y |-> y,
        N |-> N,
        den |-> SlopeDen(N),
        varX2 |-> VarX2(N),
        range |-> Range(y),
        off |-> Range(y) * ProbeOff(N),
        slack |-> FeasSlack(N),
        gap |-> gap,
        A |-> SumSeq([i \in 1..N |-> (i - 1 - pivot) * (i - 1 - pivot)]),
        G |-> SumSeq([i \in 1..N |-> (i - 1 - pivot) * gap[i]])]

\* slope * i + intercept - y[i], intercept = -slope * pivot + y[pivot], as the
\* pair (Z, W): the difference is (ProbeMul * Z + W) / (SlopeDen * ProbeMul)
DiffZ(c, sl, i) == c.gap[i + 1] + sl.n * (i - c.pivot)

DiffW(c, sl, i) == sl.eps * c.off * (i - c.pivot)

\* a score that is the sum of squared differences whatever the line crosses
checkTrendLineUnbounded(c, sl) == [inf |-> FALSE, n |-> sl.n, eps |-> sl.eps]

\* the score of the line of slope sl through (pivot, y[pivot]): Infeasible, or
\* the sum of squared differences, kept as the slope it is the quadratic of
checkTrendLine(c, sl) ==
    LET over(i) == SignScaled(DiffZ(c, sl, i), DiffW(c, sl, i) - c.slack) = 1
        under(i) == SignScaled(DiffZ(c, sl, i), DiffW(c, sl, i) + c.slack) = -1
    IN IF c.support /\ \E i \in 0..(c.N - 1) : over(i) THEN Infeasible
       ELSE IF ~c.support /\ \E i \in 0..(c.N - 1) : under(i) THEN Infeasible
       ELSE [inf |-> FALSE, n |-> sl.n, eps |-> sl.eps]

\* sign of e1 - e2 for two scores of lines through the same pivot, an
\* infeasible score being the number -1 as in the code
ErrCmp(c, e1, e2) ==
    LET d1 == SignScaled(e1.n - e2.n, (e1.eps - e2.eps) * c.off)
        d2 == IF c.A = 0 THEN 0
              ELSE SignScaledLin(c.A, e1.n + e2.n, 2 * c.G,
                                 c.A * (e1.eps + e2.eps) * c.off)
    IN IF e1.inf /\ e2.inf THEN 0
       ELSE IF e1.inf THEN -1
       ELSE IF e2.inf THEN 1
       ELSE d1 * d2

\* the locals of optimizeSlope before its loop; probed tells whether the
\* pass taken last derived the direction, mixed whether the score it
\* subtracted bestErr from was the -1 of an infeasible probe, back whether
\* that score was the one of the backward probe, and turn the way the trial
\* of the pass taken last moved the slope (1 up, -1 down, 0 before any trial)
OptInit(c) ==
    [optStep |-> StepScale,
     bestSlope |-> 0,
     bestErr |-> checkTrendLine(c, [n |-> 0, eps |-> 0]),
     derivative |-> 0,
     getDerivative |-> TRUE,
     iters |-> 0,
     noImprove |-> 0,
     bailed |-> FALSE,
     probed |-> FALSE,
     mixed |-> FALSE,
     back |-> FALSE,
     turn |-> 0]

\* a loop condition that never fails
OptLoopForever(st) == TRUE

\* while (optStep > minStep)
OptLoopCond(st) == st.optStep * MinStepInv > StepScale

\* the direction probe: bestSlope + slopeUnit * minStep, retried with
\* bestSlope - slopeUnit * minStep when that is infeasible
OptProbe(c, st) ==
    LET fwd == checkTrendLine(c, [n |-> st.bestSlope, eps |-> 1])
    IN IF fwd.inf
       THEN checkTrendLine(c, [n |-> st.bestSlope, eps |-> -1])
       ELSE fwd

\* the forward direction probe is infeasible and the backward one is not
OptProbeBack(c, st) ==
    /\ checkTrendLine(c, [n |-> st.bestSlope, eps |-> 1]).inf
    /\ ~checkTrendLine(c, [n |-> st.bestSlope, eps |-> -1]).inf

\* one pass of the loop body; bail selects the variant with the V3 counters
OptIter(bail, c, st) ==
    LET iters == st.iters + 1
        probe == OptProbe(c, st)
        d == IF st.getDerivative
             THEN ErrCmp(c, probe, st.bestErr)
             ELSE st.derivative
        step == c.range * st.optStep * c.varX2
        trial == IF d > 0 THEN st.bestSlope - step ELSE st.bestSlope + step
        errTest == checkTrendLine(c, [n |-> trial, eps |-> 0])
        seen == [st EXCEPT !.iters = iters, !.derivative = d,
                           !.getDerivative = FALSE,
                           !.probed = st.getDerivative,
                           !.mixed = st.getDerivative /\ probe.inf,
                           !.back = st.getDerivative /\ OptProbeBack(c, st),
                           !.turn = IF d > 0 THEN -1 ELSE 1]
    IN IF bail /\ (iters >= c.N * MaxItersPerBar \/ st.noImprove >= c.N * MaxNoImprovePerBar)
       THEN [st EXCEPT !.iters = iters, !.bailed = TRUE,
                       !.probed = FALSE, !.mixed = FALSE,
                       !.back = FALSE, !.turn = 0]
       ELSE IF errTest.inf \/ ErrCmp(c, errTest, st.bestErr) >= 0
       THEN [seen EXCEPT !.optStep = st.optStep \div 2,
                         !.noImprove = st.noImprove + 1]
       ELSE [seen EXCEPT !.getDerivative = TRUE,
                         !.bestSlope = trial, !.bestErr = errTest,
                         !.noImprove = 0]

RECURSIVE OptLoop(_, _, _)
OptLoop(bail, c, st) ==
    IF st.bailed \/ ~OptLoopCond(st) THEN st
    ELSE OptLoop(bail, c, OptIter(bail, c, st))

\* a return whose intercept is that of the seed line
OptResultSeedIntercept(c, st) ==
    [slope |-> c.init + st.bestSlope,
     intercept |-> -c.init * c.pivot + c.y[c.pivot + 1] * c.den]

\* [bestSlope, bestIntercept], both over SlopeDen
OptResult(c, st) ==
    LET slope == c.init + st.bestSlope
    IN [slope |-> slope,
        intercept |-> -slope * c.pivot + c.y[c.pivot + 1] * c.den]

\* optimizeSlope without the bail-out counters
optimizeSlope(support, pivot, initSlope, y) ==
    LET c == FitCtx(support, pivot, initSlope, y)
    IN OptResult(c, OptLoop(FALSE, c, OptInit(c)))

\* optimizeSlope with the V3 dynamic bail-out
optimizeSlopeV3(support, pivot, initSlope, y) ==
    LET c == FitCtx(support, pivot, initSlope, y)
    IN OptResult(c, OptLoop(TRUE, c, OptInit(c)))

\* covXY * 2N: sum of (2 x_i - 2 meanX) * (N y_i - N meanY)
Cov2N(y) ==
    LET N == Len(y)
        sumY == SumSeq(y)
    IN SumSeq([i \in 1..N |-> (2 * (i - 1) - (N - 1)) * (N * y[i] - sumY)])

\* the least-squares seed slope covXY / varX, over SlopeDen
SeedSlope(y) == Cov2N(y) * StepScale

\* residuals y[i] - slope * i, times N * VarX2
Residuals(y) ==
    LET N == Len(y)
    IN [i \in 1..N |-> N * VarX2(N) * y[i] - Cov2N(y) * (i - 1)]

\* slope * i + intercept, summed index by index
RECURSIVE LineAt(_, _)
LineAt(line, i) ==
    IF i = 0 THEN line.intercept ELSE LineAt(line, i - 1) + line.slope

\* the classification with the support test ahead of the resistance test
BreakoutBearishFirst(y, sup, res) ==
    LET N == Len(y)
        resistLast == LineAt(res, N - 1)
        supportLast == LineAt(sup, N - 1)
        tol == FloorDiv(Abs(resistLast), TolPctInv)
        last == y[N] * SlopeDen(N)
    IN IF last - supportLast <= tol THEN "bearish"
       ELSE IF last - resistLast >= -tol THEN "bullish"
       ELSE "none"

\* breakout classification from the two fitted lines
Breakout(y, sup, res) ==
    LET N == Len(y)
        den == SlopeDen(N)
        resistLast == LineAt(res, N - 1)
        supportLast == LineAt(sup, N - 1)
        tol == FloorDiv(Abs(resistLast), TolPctInv)
        last == y[N] * den
    IN IF last - resistLast >= -tol THEN "bullish"
       ELSE IF last - supportLast <= tol THEN "bearish"
       ELSE "none"

\* a resistance pivot taken at the least residual
UpperPivotAtLeast(y) == IndexOf(Residuals(y), MinSeq(Residuals(y)))

\* the upper and lower pivots: the first index of the greatest and of the
\* least residual
UpperPivot(y) == IndexOf(Residuals(y), MaxSeq(Residuals(y)))

LowerPivot(y) == IndexOf(Residuals(y), MinSeq(Residuals(y)))

\* what fitTrendlinesWindow returns, from the two optimizeSlope results
FitReturn(y, sup, res) ==
    [supSlope |-> sup.slope,
     resSlope |-> res.slope,
     supInt |-> sup.intercept,
     resInt |-> res.intercept,
     upperPivot |-> UpperPivot(y),
     lowerPivot |-> LowerPivot(y),
     breakout |-> Breakout(y, sup, res)]

\* fitTrendlinesWindow; bail selects the optimizeSlope it calls
FitGen(bail, y) ==
    LET slope == SeedSlope(y)
        sup == IF bail THEN optimizeSlopeV3(TRUE, LowerPivot(y), slope, y)
               ELSE optimizeSlope(TRUE, LowerPivot(y), slope, y)
        res == IF bail THEN optimizeSlopeV3(FALSE, UpperPivot(y), slope, y)
               ELSE optimizeSlope(FALSE, UpperPivot(y), slope, y)
    IN FitReturn(y, sup, res)

\* ------------------------------------------------------------ filter cascade
\* a cascade without its reversal stage
ReversalOff(signal, last) == signal

\* Reversal filter
ReversalFilter(signal, last) ==
    IF signal # "none" /\ signal = last THEN "none" ELSE signal

\* a slope stage that lets a level line pass
SlopeFilterLoose(signal, supSlope, resSlope) ==
    LET s1 == IF signal = "bullish" /\ resSlope < 0 THEN "none" ELSE signal
    IN IF s1 = "bearish" /\ supSlope > 0 THEN "none" ELSE s1

\* Slope filters
SlopeFilter(signal, supSlope, resSlope) ==
    LET s1 == IF signal = "bullish" /\ resSlope <= 0 THEN "none" ELSE signal
    IN IF s1 = "bearish" /\ supSlope >= 0 THEN "none" ELSE s1

\* the price stage comparing against the whole window, current close included
PriceFilterInclusive(signal, close, prices) ==
    LET s1 == IF signal = "bullish" /\ close <= MaxSeq(prices) THEN "none" ELSE signal
    IN IF s1 = "bearish" /\ close >= MinSeq(prices) THEN "none" ELSE s1

\* a price stage that lets a close equal to the extreme of the earlier closes pass
PriceFilterLax(signal, close, prices) ==
    LET prevPrices == SliceInit(prices)
        s1 == IF signal = "bullish" /\ close < MaxSeq(prevPrices) THEN "none" ELSE signal
    IN IF s1 = "bearish" /\ close > MinSeq(prevPrices) THEN "none" ELSE s1

\* Price confirmation against prevPrices = priceWindow.slice(0, -1)
PriceFilter(signal, close, prices) ==
    LET prevPrices == SliceInit(prices)
        s1 == IF signal = "bullish" /\ close <= MaxSeq(prevPrices) THEN "none" ELSE signal
    IN IF s1 = "bearish" /\ close >= MinSeq(prevPrices) THEN "none" ELSE s1

\* a volume stage that turns a signal around instead of dropping it
VolumeFilterFlips(signal, vol, volumes) ==
    IF signal \in {"bullish", "bearish"}
       /\ vol * (Len(volumes) - 1) <= SumSeq(SliceInit(volumes))
    THEN (IF signal = "bullish" THEN "bearish" ELSE "bullish")
    ELSE signal

\* a volume stage that lets a volume equal to the average pass
VolumeFilterLax(signal, vol, volumes) ==
    IF signal \in {"bullish", "bearish"}
       /\ vol * (Len(volumes) - 1) < SumSeq(SliceInit(volumes))
    THEN "none" ELSE signal

\* Volume confirmation: vol <= avgVol, avgVol = sum(prior) / (length - 1)
VolumeFilter(signal, vol, volumes) ==
    IF signal \in {"bullish", "bearish"}
       /\ vol * (Len(volumes) - 1) <= SumSeq(SliceInit(volumes))
    THEN "none" ELSE signal

\* the four stages in the order of the code
Cascade(f, last, close, vol, prices, volumes) ==
    VolumeFilter(
        PriceFilter(
            SlopeFilter(ReversalFilter(f.breakout, last), f.supSlope, f.resSlope),
            close, prices),
        vol, volumes)

\* the stop taken at the wrong extreme of the window
EntryStopSwapped(signal, prices) ==
    IF signal = "bullish" THEN MaxSeq(prices) ELSE MinSeq(prices)

\* Entry logic: the stop and the target of an accepted signal
EntryStop(signal, prices) ==
    IF signal = "bullish" THEN MinSeq(prices) ELSE MaxSeq(prices)

EntryTarget(signal, entry, stop) ==
    IF signal = "bullish" THEN entry + (entry - stop) * R_MULTIPLE
    ELSE entry - (stop - entry) * R_MULTIPLE

\* ------------------------------------------------------------------- inputs
\* CVD levels, close prices (in ticks) and volumes of the bars fed to the loops
CvdValues == {0, 1}

CloseValues == {0, 1}

VolumeValues == {1, 2}

SetMax(S) == CHOOSE v \in S : \A u \in S : u <= v

SetMin(S) == CHOOSE v \in S : \A u \in S : v <= u

\* a bar's low and high lie at its close or one wick away from it; the wick
\* reaches every stop and target that closes of the given set can produce
WickOf(closes) == (R_MULTIPLE + 1) * (SetMax(closes) - SetMin(closes))

\* the bars of the free streams.  Bars whose close level lies above their
\* CVD level are left out: this keeps the windows few, and every filter
\* stage still both passes and demotes signals of either direction.
Bars == {b \in [cvd : CvdValues, close : CloseValues, volume : VolumeValues,
                down : {0, WickOf(CloseValues)}, up : {0, WickOf(CloseValues)}] :
            b.close <= b.cvd}

Low(b) == b.close - b.down

High(b) == b.close + b.up

\* a bar touches the stop of a Long when its low is at or below it and of a
\* Short when its high is at or above it; the target the other way round
Touch(pos, stop, target, b) ==
    [pos |-> pos,
     stop |-> \/ pos = "bullish" /\ Low(b) <= stop
              \/ pos = "bearish" /\ High(b) >= stop,
     target |-> \/ pos = "bullish" /\ High(b) >= target
                \/ pos = "bearish" /\ Low(b) <= target]

NoHit == [pos |-> "null", stop |-> FALSE, target |-> FALSE]

CvdWindows == [1..WINDOW_SIZE -> CvdValues]

\* no fitTrendlinesWindow call is being followed step by step
NoCall == [phase |-> "idle"]

\* no run beside the one of the variables
NoTwin == [runs |-> <<>>]

\* no streamTradesPaged call
NoPager == [phase |-> "none"]

\* the fit of every window of S as a function given by its graph, built
\* entry by entry so that it is tabulated once instead of being recomputed
\* at every application
RECURSIVE Tabulate(_, _)
Tabulate(bail, S) ==
    IF S = {} THEN <<>>
    ELSE LET w == CHOOSE v \in S : TRUE
         IN (w :> FitGen(bail, w)) @@ Tabulate(bail, S \ {w})

FitTable == Tabulate(FALSE, CvdWindows)

FitTableV3 == Tabulate(TRUE, CvdWindows)

\* the candles one instance receives at most
PairCandlesMax == WINDOW_SIZE + 1

\* fitTrendlinesWindow over the plain optimizeSlope
fitTrendlinesWindow(y) ==
    IF y \in DOMAIN FitTable THEN FitTable[y] ELSE FitGen(FALSE, y)

\* fitTrendlinesWindow over the bail-out optimizeSlope
fitTrendlinesWindowV3(y) ==
    IF y \in DOMAIN FitTableV3 THEN FitTableV3[y] ELSE FitGen(TRUE, y)

\* -------------------------------------------------------------------- state
VARIABLES
    variant,    \* the program that runs: "main" (indicatorV2.ts),
                \* "entryOnly" (the tick-bar main), "cd" (CdStrategy)
    cvdWindow, priceWindow, volumeWindow,   \* the three sliding windows
    lastSignal, position,                   \* "bullish", "bearish" or "null"
    stopPrice, targetPrice,
    hit,        \* the position that the bar processed last met, and whether
                \* the bar touched its stop and its target
    event,      \* what the processing of the last bar did
    breakout,   \* the raw classification of the latest fit
    signal,     \* what left the filter cascade at the latest fit
    lastBar,    \* the cvd, close and volume of the bar processed last:
                \* <<>> before the first bar, <<bar>> otherwise
    tape,       \* the bars still to come of a scripted stream
    strongUpdown,                   \* the colour mode a bar generator is called with
    current,    \* the open bar: <<>> for null, <<bar>> otherwise
    runningCvd, prevHigh, prevLow,  \* prevHigh, prevLow: <<>> for null, <<px>> otherwise
    tickCount,
    out,        \* <<bar>> when the step taken last yielded a bar, else <<>>
    done,       \* the trade stream has ended and the generator has returned
    hist,       \* what has been consumed and yielded so far
    call,       \* a fitTrendlinesWindow call in progress: its window, the
                \* optimizeSlope it is in, that one's locals, and the
                \* results so far
    twin,       \* the runs that go on beside the one above: for each its
                \* locals or fields, what it has read and what it has emitted
    pager       \* a streamTradesPaged call: its locals, the request in
                \* progress and the trade yielded last

loopVars == <<variant, cvdWindow, priceWindow, volumeWindow, lastSignal,
              position, stopPrice, targetPrice, hit, event, breakout, signal,
              lastBar>>

barVars == <<strongUpdown, current, runningCvd, prevHigh, prevLow, tickCount,
             out, done, hist>>

vars == <<loopVars, tape, barVars, call, twin, pager>>

\* ----------------------------------------------------------- bar generators
\* aggressor sides as the feed tags them: bid-hit, ask-hit, neutral
Sides == {"B", "A", "N"}

PxValues == {1, 2}

SizeValues == {1, 2}

\* trade timestamps in ms: 0:00.0, 0:30.0 and 1:00.0
TsValues == {0, 30 * 1000, 60 * 1000}

Trades == [px : PxValues, size : SizeValues, side : Sides, ts_ms : TsValues]

\* the number of trades after which the stream must end
MaxTrades == 3

\* trades per tick bar (1000 in the program, scaled down)
TICK_SIZE == 2

\* deltaFromSide
deltaFromSide(side, size) ==
    IF side = "B" THEN size
    ELSE IF side = "A" THEN -size
    ELSE 0

\* "const delta = side === 'B' ? size : -size"
deltaTwoSided(side, size) == IF side = "B" THEN size ELSE -size

\* the timestamp left as it is, without the truncation to the minute
setSecondsKept(ms) == ms

\* dt.setSeconds(0, 0) on the epoch milliseconds of dt
setSeconds0(ms) == ms - (ms % (60 * 1000))

\* dt.toISOString(): the minute, second and millisecond the string spells
toISOString(ms) ==
    [min |-> ms \div (60 * 1000),
     sec |-> (ms % (60 * 1000)) \div 1000,
     ms |-> ms % 1000]

\* a colour that is the weak-mode one in either mode
getCvdColorWeak(close, open, pHigh, pLow, strong) ==
    IF close > open THEN "green"
    ELSE IF close < open THEN "red"
    ELSE "gray"

\* getCvdColor, prevHigh and prevLow being <<>> for null
getCvdColor(close, open, pHigh, pLow, strong) ==
    IF ~strong \/ pHigh = <<>> \/ pLow = <<>>
    THEN IF close > open THEN "green"
         ELSE IF close < open THEN "red"
         ELSE "gray"
    ELSE IF close > pHigh[1] THEN "green"
    ELSE IF close < pLow[1] THEN "red"
    ELSE "gray"

\* "start new bar"
NewBar(iso, t, delta, cvd) ==
    [timestamp |-> iso, open |-> t.px, high |-> t.px, low |-> t.px,
     close |-> t.px, volume |-> t.size, delta |-> delta, cvd_running |-> cvd]

\* "extend bar"
ExtendBar(bar, t, delta, cvd) ==
    [bar EXCEPT !.high = IF t.px > bar.high THEN t.px ELSE bar.high,
                !.low = IF t.px < bar.low THEN t.px ELSE bar.low,
                !.close = t.px,
                !.volume = bar.volume + t.size,
                !.delta = bar.delta + delta,
                !.cvd_running = cvd]

\* the bar as yielded: cvd and cvd_color set
Finalize(bar) ==
    [timestamp |-> bar.timestamp, open |-> bar.open, high |-> bar.high,
     low |-> bar.low, close |-> bar.close, volume |-> bar.volume,
     delta |-> bar.delta, cvd_running |-> bar.cvd_running,
     cvd |-> bar.cvd_running,
     cvd_color |-> getCvdColor(bar.close, bar.open, prevHigh, prevLow, strongUpdown)]

\* a tick bar closed one trade late
TickBarOverfull(count) == count > TICK_SIZE

\* "if (tickCount >= TICK_SIZE)"
TickBarFull(count) == count >= TICK_SIZE

\* the tally of the trades of one bar: how many, the minutes they fall in,
\* the sum of all signed deltas up to the last of them, and of the bar's own
\* trades the first and last price, the price extremes, the sizes summed and
\* the signed deltas summed
NoTally == [n |-> 0, keys |-> {}, sum |-> 0, first |-> 0, last |-> 0,
            prices |-> {}, size |-> 0, delta |-> 0]

\* nothing consumed, nothing yielded
NoHist ==
    [n |-> 0,           \* trades consumed
     sum |-> 0,         \* sum of their signed deltas (+size, -size, 0)
     ts |-> 0,          \* greatest timestamp consumed
     sorted |-> TRUE,   \* the timestamps consumed so far never decreased
     bars |-> 0,        \* bars yielded
     emitted |-> 0,     \* trades held by the bars yielded
     open |-> NoTally,  \* tally of the open bar
     shut |-> NoTally,  \* tally of the bar yielded last
     stamps |-> <<>>]   \* timestamps of the last two bars yielded, in order

\* hist after trade t has been consumed; opens tells whether t starts a new
\* bar, and yields whether a bar is yielded: "before" (the open bar, ahead
\* of t), "after" (the bar holding t) or "no"
Consume(t, opens, yields) ==
    LET sum == hist.sum + deltaFromSide(t.side, t.size)
        base == IF opens THEN NoTally ELSE hist.open
        tally == [n |-> base.n + 1,
                  keys |-> base.keys \cup {t.ts_ms \div (60 * 1000)},
                  sum |-> sum,
                  first |-> IF base.n = 0 THEN t.px ELSE base.first,
                  last |-> t.px,
                  prices |-> base.prices \cup {t.px},
                  size |-> base.size + t.size,
                  delta |-> base.delta + deltaFromSide(t.side, t.size)]
        yielded == IF yields = "before" THEN hist.open ELSE tally
        stamp == IF yields = "before" THEN current[1].timestamp
                 ELSE IF opens THEN toISOString(t.ts_ms)
                 ELSE current[1].timestamp
    IN [hist EXCEPT !.n = hist.n + 1,
                    !.sum = sum,
                    !.ts = IF t.ts_ms > hist.ts THEN t.ts_ms ELSE hist.ts,
                    !.sorted = hist.sorted /\ t.ts_ms >= hist.ts,
                    !.bars = IF yields = "no" THEN hist.bars ELSE hist.bars + 1,
                    !.emitted = IF yields = "no" THEN hist.emitted
                                ELSE hist.emitted + yielded.n,
                    !.open = IF yields = "after" THEN NoTally ELSE tally,
                    !.shut = IF yields = "no" THEN hist.shut ELSE yielded,
                    !.stamps = IF yields = "no" THEN hist.stamps
                               ELSE IF hist.stamps = <<>> THEN <<stamp>>
                               ELSE <<hist.stamps[Len(hist.stamps)], stamp>>]

\* the locals of a bar generator before its first trade
BarInit ==
    /\ current = <<>>
    /\ runningCvd = 0
    /\ prevHigh = <<>>
    /\ prevLow = <<>>
    /\ tickCount = 0
    /\ out = <<>>
    /\ done = FALSE
    /\ hist = NoHist

\* one pass of the for-await body of streamOneMinuteBars on trade t, delta
\* being what the variant derives from t
MinuteTrade(t, delta) ==
    LET iso == toISOString(setSeconds0(t.ts_ms))
        cvd == runningCvd + delta
        opens == current = <<>> \/ current[1].timestamp # iso
    IN /\ runningCvd' = cvd
       /\ IF opens
          THEN /\ IF current # <<>>
                  THEN /\ out' = <<Finalize(current[1])>>
                       /\ prevHigh' = <<current[1].high>>
                       /\ prevLow' = <<current[1].low>>
                  ELSE /\ out' = <<>>
                       /\ UNCHANGED <<prevHigh, prevLow>>
               /\ current' = <<NewBar(iso, t, delta, cvd)>>
          ELSE /\ current' = <<ExtendBar(current[1], t, delta, cvd)>>
               /\ out' = <<>>
               /\ UNCHANGED <<prevHigh, prevLow>>
       /\ hist' = Consume(t, opens,
                          IF opens /\ current # <<>> THEN "before" ELSE "no")
       /\ UNCHANGED <<strongUpdown, tickCount, done>>

\* one pass of the for-await body of streamTickBars on trade t
TickTrade(t) ==
    LET iso == toISOString(t.ts_ms)
        delta == deltaTwoSided(t.side, t.size)
        cvd == runningCvd + delta
        count == tickCount + 1
        bar == IF current = <<>> THEN NewBar(iso, t, delta, cvd)
               ELSE ExtendBar(current[1], t, delta, cvd)
    IN /\ runningCvd' = cvd
       /\ IF TickBarFull(count)
          THEN /\ out' = <<Finalize(bar)>>
               /\ prevHigh' = <<bar.high>>
               /\ prevLow' = <<bar.low>>
               /\ current' = <<>>
               /\ tickCount' = 0
          ELSE /\ out' = <<>>
               /\ current' = <<bar>>
               /\ tickCount' = count
               /\ UNCHANGED <<prevHigh, prevLow>>
       /\ hist' = Consume(t, current = <<>>,
                          IF TickBarFull(count) THEN "after" ELSE "no")
       /\ UNCHANGED <<strongUpdown, done>>

\* an end of stream that discards the open bar
FlushDrops ==
    /\ done' = TRUE
    /\ out' = <<>>
    /\ UNCHANGED <<strongUpdown, current, runningCvd, prevHigh, prevLow,
                   tickCount, hist>>

\* the stream ends: the code after the loop, which yields the open bar
Flush ==
    /\ done' = TRUE
    /\ IF current # <<>>
       THEN /\ out' = <<Finalize(current[1])>>
            /\ hist' = [hist EXCEPT !.bars = hist.bars + 1,
                                    !.emitted = hist.emitted + hist.open.n,
                                    !.shut = hist.open,
                                    !.stamps =
                                        IF hist.stamps = <<>>
                                        THEN <<current[1].timestamp>>
                                        ELSE <<hist.stamps[Len(hist.stamps)],
                                               current[1].timestamp>>]
       ELSE /\ out' = <<>>
            /\ UNCHANGED hist
    /\ UNCHANGED <<strongUpdown, current, runningCvd, prevHigh, prevLow, tickCount>>

\* the locals of main, and the fields of a new CdStrategy, before the first bar
LoopInit ==
    /\ cvdWindow = <<>>
    /\ priceWindow = <<>>
    /\ volumeWindow = <<>>
    /\ lastSignal = "null"
    /\ position = "null"
    /\ stopPrice = 0
    /\ targetPrice = 0
    /\ hit = NoHit
    /\ event = "start"
    /\ breakout = "nofit"
    /\ signal = "nofit"
    /\ lastBar = <<>>

\* the block with the take-profit test of each side ahead of its stop-loss test
ExitCheckTargetFirst(pos, stop, target, b) ==
    IF pos = "bullish"
    THEN IF High(b) >= target THEN "takeProfit"
         ELSE IF Low(b) <= stop THEN "stopLoss"
         ELSE "open"
    ELSE IF pos = "bearish"
    THEN IF Low(b) <= target THEN "takeProfit"
         ELSE IF High(b) >= stop THEN "stopLoss"
         ELSE "open"
    ELSE "open"

\* what the loops read of a bar besides its low and high
Seen(b) == <<[cvd |-> b.cvd, close |-> b.close, volume |-> b.volume]>>

\* the block with strict comparisons: a bar that only reaches the stop or
\* the target does not exit
ExitCheckBeyond(pos, stop, target, b) ==
    IF pos = "bullish"
    THEN IF Low(b) < stop THEN "stopLoss"
         ELSE IF High(b) > target THEN "takeProfit"
         ELSE "open"
    ELSE IF pos = "bearish"
    THEN IF High(b) > stop THEN "stopLoss"
         ELSE IF Low(b) < target THEN "takeProfit"
         ELSE "open"
    ELSE "open"

\* the stop-loss / take-profit block: "stopLoss", "takeProfit" or "open"
ExitCheck(pos, stop, target, b) ==
    IF pos = "bullish"
    THEN IF Low(b) <= stop THEN "stopLoss"
         ELSE IF High(b) >= target THEN "takeProfit"
         ELSE "open"
    ELSE IF pos = "bearish"
    THEN IF High(b) >= stop THEN "stopLoss"
         ELSE IF Low(b) <= target THEN "takeProfit"
         ELSE "open"
    ELSE "open"

\* an exit that keeps the reversal memory
ExitKeepsLastSignal(last) == last

\* lastSignal after an exit: "lastSignal = null"
ExitLastSignal(last) == "null"

\* a loop that evaluates entries whether or not a position is open
SkipNothing(pos) == FALSE

\* a loop that skips the entry evaluation only while a Long is open
SkipWhenLong(pos) == pos = "bullish"

\* "Skip entries if in position"
SkipEntries(pos) == pos # "null"

\* from the fit to the entry, on the windows cw, pw, vw that hold bar b:
\* fit f, filter cascade, and the entry when a signal is left.  recordsPosition
\* is FALSE for the entry-only main, which keeps lastSignal alone.
FitAndEnter(f, b, pw, vw, recordsPosition) ==
    LET sig == Cascade(f, lastSignal, b.close, b.volume, pw, vw)
        stop == EntryStop(sig, pw)
    IN /\ breakout' = f.breakout
       /\ signal' = sig
       /\ IF sig # "none"
          THEN /\ event' = "entry"
               /\ lastSignal' = sig
               /\ IF recordsPosition
                  THEN /\ stopPrice' = stop
                       /\ targetPrice' = EntryTarget(sig, b.close, stop)
                       /\ position' = sig
                  ELSE UNCHANGED <<position, stopPrice, targetPrice>>
          ELSE /\ event' = "noEntry"
               /\ UNCHANGED <<lastSignal, position, stopPrice, targetPrice>>

\* one pass of the for-await body of main (indicatorV2.ts) on bar b
MainBar(b) ==
    LET exit == ExitCheck(position, stopPrice, targetPrice, b)
        cw == PushShift(cvdWindow, b.cvd)
        pw == PushShift(priceWindow, b.close)
        vw == PushShift(volumeWindow, b.volume)
    IN /\ hit' = Touch(position, stopPrice, targetPrice, b)
       /\ lastBar' = Seen(b)
       /\ UNCHANGED variant
       /\ IF exit # "open"
          THEN \* position = null; lastSignal = null; continue
               /\ event' = exit
               /\ position' = "null"
               /\ lastSignal' = ExitLastSignal(lastSignal)
               /\ UNCHANGED <<cvdWindow, priceWindow, volumeWindow,
                              stopPrice, targetPrice, breakout, signal>>
          ELSE /\ cvdWindow' = cw
               /\ priceWindow' = pw
               /\ volumeWindow' = vw
               /\ IF Len(cw) < WINDOW_SIZE
                  THEN /\ event' = "warmup"
                       /\ UNCHANGED <<lastSignal, position, stopPrice,
                                      targetPrice, breakout, signal>>
                  ELSE IF SkipEntries(position)
                  THEN /\ event' = "inPosition"
                       /\ UNCHANGED <<lastSignal, position, stopPrice,
                                      targetPrice, breakout, signal>>
                  ELSE FitAndEnter(fitTrendlinesWindow(cw), b, pw, vw, TRUE)

\* one pass of the for-await body of the entry-only main on bar b
EntryOnlyBar(b) ==
    LET cw == PushShift(cvdWindow, b.cvd)
        pw == PushShift(priceWindow, b.close)
        vw == PushShift(volumeWindow, b.volume)
    IN /\ hit' = NoHit
       /\ lastBar' = Seen(b)
       /\ UNCHANGED variant
       /\ cvdWindow' = cw
       /\ priceWindow' = pw
       /\ volumeWindow' = vw
       /\ IF Len(cw) < WINDOW_SIZE
          THEN /\ event' = "warmup"
               /\ UNCHANGED <<lastSignal, position, stopPrice, targetPrice,
                              breakout, signal>>
          ELSE FitAndEnter(fitTrendlinesWindowV3(cw), b, pw, vw, FALSE)

\* CdStrategy.onCandle (indicator.ts) on candle b
CdCandle(b) ==
    LET cw == PushShift(cvdWindow, b.cvd)
        pw == PushShift(priceWindow, b.close)
        vw == PushShift(volumeWindow, b.volume)
    IN /\ hit' = NoHit
       /\ lastBar' = Seen(b)
       /\ UNCHANGED variant
       /\ cvdWindow' = cw
       /\ priceWindow' = pw
       /\ volumeWindow' = vw
       /\ IF Len(cw) < WINDOW_SIZE
          THEN /\ event' = "warmup"
               /\ UNCHANGED <<lastSignal, position, stopPrice, targetPrice,
                              breakout, signal>>
          ELSE FitAndEnter(fitTrendlinesWindow(cw), b, pw, vw, TRUE)

\* a free stream: any bar may come next
MainStep ==
    /\ variant = "main"
    /\ \E b \in Bars : MainBar(b)
    /\ UNCHANGED <<tape, barVars, call, twin, pager>>

EntryOnlyStep ==
    /\ variant = "entryOnly"
    /\ \E b \in Bars : EntryOnlyBar(b)
    /\ UNCHANGED <<tape, barVars, call, twin, pager>>

CdStep ==
    /\ variant = "cd"
    /\ \E b \in Bars : CdCandle(b)
    /\ UNCHANGED <<tape, barVars, call, twin, pager>>

LoopStart ==
    /\ variant \in {"main", "entryOnly", "cd"}
    /\ LoopInit
    /\ tape = <<>>
    /\ strongUpdown = TRUE
    /\ call = NoCall
    /\ twin = NoTwin
    /\ pager = NoPager
    /\ BarInit

LoopNext == MainStep \/ EntryOnlyStep \/ CdStep

SpecLoop == LoopStart /\ [][LoopNext]_vars

\* ------------------------------------------------- the worked example stream
\* the five bars of the end-to-end example
ExampleBars ==
    << [cvd |-> 10, close |-> 100, volume |-> 5],
       [cvd |-> 12, close |-> 101, volume |-> 5],
       [cvd |-> 9,  close |-> 99,  volume |-> 5],
       [cvd |-> 14, close |-> 103, volume |-> 5],
       [cvd |-> 20, close |-> 107, volume |-> 12] >>

ExampleCvd == [i \in 1..Len(ExampleBars) |-> ExampleBars[i].cvd]

ExampleCloses == [i \in 1..Len(ExampleBars) |-> ExampleBars[i].close]

ExampleVolumes == [i \in 1..Len(ExampleBars) |-> ExampleBars[i].volume]

\* how many further bars follow the five of the example
ExampleTail == 3

ExampleWick == WickOf({ExampleBars[i].close : i \in 1..Len(ExampleBars)})

\* the example's bars, then ExampleTail bars drawn from the same five
ExampleTapes ==
    {ExampleBars \o t :
        t \in [1..ExampleTail -> {ExampleBars[i] : i \in 1..Len(ExampleBars)}]}

\* main reads the next bar of the tape, its low and high being free
ExampleStep ==
    /\ variant = "main"
    /\ tape # <<>>
    /\ \E d \in {0, ExampleWick}, u \in {0, ExampleWick} :
          MainBar([cvd |-> Head(tape).cvd, close |-> Head(tape).close,
                   volume |-> Head(tape).volume, down |-> d, up |-> u])
    /\ tape' = Tail(tape)
    /\ UNCHANGED <<barVars, call, twin, pager>>

ExampleStart ==
    /\ variant = "main"
    /\ LoopInit
    /\ tape \in ExampleTapes
    /\ strongUpdown = TRUE
    /\ call = NoCall
    /\ twin = NoTwin
    /\ pager = NoPager
    /\ BarInit

ExampleNext == ExampleStep

SpecExample == ExampleStart /\ [][ExampleNext]_vars

\* ------------------------------------------------------ the bar generators run
\* streamOneMinuteBars of indicator.ts reads a trade
MinuteStep ==
    /\ variant = "minute"
    /\ ~done
    /\ hist.n < MaxTrades
    /\ \E t \in Trades : MinuteTrade(t, deltaFromSide(t.side, t.size))
    /\ UNCHANGED <<loopVars, tape, call, twin, pager>>

\* streamOneMinuteBars of indicatorV2.ts reads a trade
MinuteV2Step ==
    /\ variant = "minuteV2"
    /\ ~done
    /\ hist.n < MaxTrades
    /\ \E t \in Trades : MinuteTrade(t, deltaTwoSided(t.side, t.size))
    /\ UNCHANGED <<loopVars, tape, call, twin, pager>>

\* streamTickBars reads a trade
TickStep ==
    /\ variant = "tick"
    /\ ~done
    /\ hist.n < MaxTrades
    /\ \E t \in Trades : TickTrade(t)
    /\ UNCHANGED <<loopVars, tape, call, twin, pager>>

\* the trade stream of the running generator ends
EndOfStream ==
    /\ ~done
    /\ Flush
    /\ UNCHANGED <<loopVars, tape, call, twin, pager>>

MinuteStart ==
    /\ variant \in {"minute", "minuteV2"}
    /\ strongUpdown = TRUE
    /\ call = NoCall
    /\ twin = NoTwin
    /\ pager = NoPager
    /\ BarInit
    /\ LoopInit
    /\ tape = <<>>

MinuteNext == MinuteStep \/ MinuteV2Step \/ EndOfStream

SpecMinute == MinuteStart /\ [][MinuteNext]_vars

TickStart ==
    /\ variant = "tick"
    /\ strongUpdown = TRUE
    /\ call = NoCall
    /\ twin = NoTwin
    /\ pager = NoPager
    /\ BarInit
    /\ LoopInit
    /\ tape = <<>>

TickNext == TickStep \/ EndOfStream

SpecTick == TickStart /\ [][TickNext]_vars

\* any of the three bar generators
BarsStart ==
    /\ variant \in {"minute", "minuteV2", "tick"}
    /\ strongUpdown = TRUE
    /\ call = NoCall
    /\ twin = NoTwin
    /\ pager = NoPager
    /\ BarInit
    /\ LoopInit
    /\ tape = <<>>

BarsNext == MinuteStep \/ MinuteV2Step \/ TickStep \/ EndOfStream

SpecBars == BarsStart /\ [][BarsNext]_vars

\* any of the three bar generators, called in either colour mode
ModesStart ==
    /\ variant \in {"minute", "minuteV2", "tick"}
    /\ strongUpdown \in BOOLEAN
    /\ call = NoCall
    /\ twin = NoTwin
    /\ pager = NoPager
    /\ BarInit
    /\ LoopInit
    /\ tape = <<>>

ModesNext == MinuteStep \/ MinuteV2Step \/ TickStep \/ EndOfStream

SpecModes == ModesStart /\ [][ModesNext]_vars

\* ------------------------------------------------ one fit, followed step by step
\* the levels of the short windows handed to the fitter
FitValues == {0, 1, 2}

\* a window whose range is so wide that a minimum-step change of slope moves
\* the line by more than the feasibility slack
SteepWindow == <<-7501, 0, 7500>>

\* windows of every length from 2 to WINDOW_SIZE
FitWindows == UNION {[1..n -> FitValues] : n \in 2..WINDOW_SIZE}
                  \cup {ExampleCvd, SteepWindow}

\* the optimizeSlope call that fitTrendlinesWindow makes for its support
\* line (from lowerPivot) or its resistance line (from upperPivot)
CallCtx(support, y) ==
    FitCtx(support, IF support THEN LowerPivot(y) ELSE UpperPivot(y),
           SeedSlope(y), y)

\* fitTrendlinesWindow(y) has computed the seed slope and the pivots and has
\* entered optimizeSlope for the support line
Enter(y) ==
    [phase |-> "support",
     y |-> y,
     st |-> OptInit(CallCtx(TRUE, y)),
     sup |-> <<>>,
     res |-> <<>>,
     left |-> <<>>,
     ret |-> <<>>]

\* the variant whose optimizeSlope carries the V3 bail-out counters
Bails == variant = "fitV3"

\* one pass of the while loop of the optimizeSlope call in progress
OptStep ==
    /\ call.phase \in {"support", "resist"}
    /\ OptLoopCond(call.st) /\ ~call.st.bailed
    /\ call' = [call EXCEPT !.st = OptIter(Bails, CallCtx(call.phase = "support", call.y),
                                           call.st)]
    /\ UNCHANGED <<loopVars, tape, barVars, twin, pager>>

\* the optimizeSlope call in progress leaves its loop and returns; after the
\* support call fitTrendlinesWindow enters the resistance call, after the
\* resistance call it classifies and returns.  left records how each call
\* left its loop and with which locals.
OptReturn ==
    /\ call.phase \in {"support", "resist"}
    /\ ~OptLoopCond(call.st) \/ call.st.bailed
    /\ LET c == CallCtx(call.phase = "support", call.y)
           r == OptResult(c, call.st)
           how == Append(call.left, call.st)
       IN IF call.phase = "support"
          THEN call' = [call EXCEPT !.phase = "resist",
                                    !.sup = <<r>>,
                                    !.left = how,
                                    !.st = OptInit(CallCtx(FALSE, call.y))]
          ELSE call' = [call EXCEPT !.phase = "done",
                                    !.res = <<r>>,
                                    !.left = how,
                                    !.ret = <<FitReturn(call.y, call.sup[1], r)>>]
    /\ UNCHANGED <<loopVars, tape, barVars, twin, pager>>

FitStart ==
    /\ variant \in {"fit", "fitV3"}
    /\ \E y \in FitWindows : call = Enter(y)
    /\ twin = NoTwin
    /\ pager = NoPager
    /\ LoopInit
    /\ tape = <<>>
    /\ strongUpdown = TRUE
    /\ BarInit

FitNext == OptStep \/ OptReturn

SpecFit == FitStart /\ [][FitNext]_vars

\* ----------------------------------------------------------------- properties
Exits == {"stopLoss", "takeProfit"}

\* the steps that evaluated a fit and ran the filter cascade
Evaluations == {"entry", "noEntry"}

\* C1: in main, a bar that touches both the stop and the target of the open
\* position (Long: low <= stop and high >= target; Short: high >= stop and
\* low <= target) is reported as a stop-loss, never as a take-profit
C1_StopLossFirst ==
    (variant = "main" /\ hit.stop /\ hit.target) => event = "stopLoss"

C1_Witness ==
    /\ variant = "main"
    /\ hit.pos = "bullish"
    /\ hit.stop /\ hit.target
    /\ event = "stopLoss"

\* C2 as stated: in every variant that records a position, a bar processed
\* while a position is open evaluates no entry and leaves the stop and the
\* target as they are
C2_AsStated ==
    [][(variant \in {"main", "cd"} /\ position # "null")
          => /\ event' \notin Evaluations
             /\ stopPrice' = stopPrice
             /\ targetPrice' = targetPrice]_vars

\* C2 amended: main evaluates no entry while a position is open, keeps the
\* stop and the target, keeps or closes the position, and pushes the bar
\* into the windows unless the bar closes the position; CdStrategy.onCandle
\* has no such guard and enters over an open position, which the reversal
\* stage lets happen only in the opposite direction
C2_Amended ==
    [][/\ (variant = "main" /\ position # "null")
            => /\ event' \in Exits \cup {"inPosition", "warmup"}
               /\ position' \in {position, "null"}
               /\ stopPrice' = stopPrice
               /\ targetPrice' = targetPrice
               /\ event' = "inPosition"
                     => /\ position' = position
                        /\ Len(cvdWindow') = WINDOW_SIZE
                        /\ SubSeq(cvdWindow', 1, WINDOW_SIZE - 1) = Tail(cvdWindow)
                        /\ SubSeq(priceWindow', 1, WINDOW_SIZE - 1) = Tail(priceWindow)
                        /\ SubSeq(volumeWindow', 1, WINDOW_SIZE - 1) = Tail(volumeWindow)
       /\ (variant = "cd" /\ position # "null" /\ event' = "entry")
            => position' # position]_vars

C2_Witness ==
    /\ variant = "main"
    /\ event = "inPosition"
    /\ position # "null"

\* C3 as stated: of two consecutive fit evaluations that are both raw
\* bullish, the second leaves the cascade as none
C3_AsStated ==
    [][(event' \in Evaluations /\ breakout = "bullish" /\ breakout' = "bullish")
          => signal' = "none"]_vars

\* C3 amended: a raw bullish evaluation is demoted by the reversal stage
\* exactly when the reversal memory is bullish: in the entry-only main and in
\* CdStrategy a raw bullish that follows an accepted bullish (nothing accepted
\* in between) leaves the cascade as none, whereas one that follows a raw
\* bullish demoted by a later stage may be accepted; in main the memory is
\* empty at every evaluation, so the stage never demotes
C3_Amended ==
    [][(event' \in Evaluations /\ breakout' = "bullish")
          => /\ lastSignal = "bullish" => signal' = "none"
             /\ (variant \in {"entryOnly", "cd"} /\ breakout = "bullish"
                     /\ signal = "bullish") => signal' = "none"
             /\ variant = "main" => lastSignal = "null"]_vars

\* a raw bullish that every later stage would pass, demoted by the memory
C3_Witness ==
    /\ variant = "entryOnly"
    /\ event = "noEntry"
    /\ breakout = "bullish"
    /\ signal = "none"
    /\ lastSignal = "bullish"
    /\ Cascade(fitTrendlinesWindowV3(cvdWindow), "null", priceWindow[WINDOW_SIZE],
               volumeWindow[WINDOW_SIZE], priceWindow, volumeWindow) = "bullish"

\* C4: in main every exit leaves the machine Flat with the position and the
\* reversal memory cleared, so that the reversal stage passes a signal of
\* either direction at the next evaluation
C4_ExitClears ==
    (variant = "main" /\ event \in Exits)
        => /\ position = "null"
           /\ lastSignal = "null"
           /\ \A s \in {"bullish", "bearish"} : ReversalFilter(s, lastSignal) = s

\* the state after a Short was closed, in which a next bar is raw bearish
\* and passes the reversal and slope stages
C4_Witness ==
    /\ variant = "main"
    /\ event \in Exits
    /\ hit.pos = "bearish"
    /\ position = "null"
    /\ \E b \in Bars :
          LET f == fitTrendlinesWindow(PushShift(cvdWindow, b.cvd))
          IN /\ f.breakout = "bearish"
             /\ SlopeFilter(ReversalFilter(f.breakout, lastSignal),
                            f.supSlope, f.resSlope) = "bearish"

\* C5: an entry of main is made at the close of the current bar; a bullish
\* entry puts the stop at the least close of the window (current close
\* included) and the target at entry + (entry - stop) * R, a bearish entry
\* puts the stop at the greatest close and the target at
\* entry - (stop - entry) * R, with R = 2
C5_EntryLevels ==
    (variant = "main" /\ event = "entry")
        => LET entry == priceWindow[WINDOW_SIZE]
               idx == 1..WINDOW_SIZE
           IN /\ position \in {"bullish", "bearish"}
              /\ \E i \in idx : stopPrice = priceWindow[i]
              /\ position = "bullish"
                    => /\ \A i \in idx : stopPrice <= priceWindow[i]
                       /\ targetPrice = entry + (entry - stopPrice) * 2
              /\ position = "bearish"
                    => /\ \A i \in idx : stopPrice >= priceWindow[i]
                       /\ targetPrice = entry - (stopPrice - entry) * 2

C5_Witness ==
    /\ variant = "main"
    /\ event = "entry"
    /\ position = "bearish"
    /\ stopPrice > priceWindow[WINDOW_SIZE]
    /\ targetPrice < priceWindow[WINDOW_SIZE]

\* C6: when main evaluates the windows CVD = [10,12,9,14,20], closes =
\* [100,101,99,103,107], volumes = [5,5,5,5,12], the resistance line ends
\* within 0.1% of 20, the resistance slope is positive, the price and volume
\* stages pass, and main enters bullish with entry 107, stop 99, target 123
C6_AtExample ==
    /\ cvdWindow = ExampleCvd
    /\ priceWindow = ExampleCloses
    /\ volumeWindow = ExampleVolumes
    /\ event \in Evaluations

C6_EndToEnd ==
    C6_AtExample
        => LET f == fitTrendlinesWindow(cvdWindow)
               den == SlopeDen(WINDOW_SIZE)
               resistLast == f.resSlope * (WINDOW_SIZE - 1) + f.resInt
           IN /\ Abs(resistLast - 20 * den) * 1000 <= 20 * den
              /\ f.resSlope > 0
              /\ breakout = "bullish"
              /\ PriceFilter("bullish", 107, priceWindow) = "bullish"
              /\ VolumeFilter("bullish", 12, volumeWindow) = "bullish"
              /\ signal = "bullish"
              /\ event = "entry"
              /\ position = "bullish"
              /\ priceWindow[WINDOW_SIZE] = 107
              /\ stopPrice = 99
              /\ targetPrice = 123

C6_Witness ==
    /\ C6_AtExample
    /\ event = "entry"
    /\ position = "bullish"

\* the running CVD is the sum of the signed deltas of the trades consumed,
\* and a yielded bar carries that sum as of its last trade
CvdIsRunningSum ==
    /\ runningCvd = hist.sum
    /\ current # <<>> => current[1].cvd_running = hist.open.sum
    /\ out # <<>> => /\ out[1].cvd_running = hist.shut.sum
                     /\ out[1].cvd = hist.shut.sum

\* C7 as stated: in streamOneMinuteBars (indicator.ts) and streamTickBars the
\* running CVD equals the sum of the signed deltas of all trades consumed so
\* far, and every yielded bar's cvd_running and cvd equal that sum through
\* the bar's last trade, the trade that opens the next bar left out
C7_AsStated == variant \in {"minute", "tick"} => CvdIsRunningSum

\* the part of C7 that streamOneMinuteBars of indicator.ts satisfies
C7_InMinuteBars == variant = "minute" => CvdIsRunningSum

\* C8 as stated: in every bar generator the delta added for a consumed trade
\* is +size for a buy, -size for a sell and 0 for a neutral trade
C8_AsStated ==
    [][hist'.n = hist.n + 1
          => runningCvd' - runningCvd = hist'.sum - hist.sum]_vars

\* C9: streamTickBars yields bars of exactly TICK_SIZE trades, except that
\* the bar yielded when the stream ends holds between 1 and TICK_SIZE trades;
\* the number of bars is ceil(trades / TICK_SIZE) once the stream has ended
\* (0 for an empty stream) and floor(trades / TICK_SIZE) before
C9_TickBarCounts ==
    variant = "tick"
        => /\ (out # <<>> /\ ~done) => hist.shut.n = TICK_SIZE
           /\ (out # <<>> /\ done) => hist.shut.n \in 1..TICK_SIZE
           /\ ~done => hist.bars * TICK_SIZE = hist.n - tickCount
           /\ ~done => hist.bars = hist.n \div TICK_SIZE
           /\ done => hist.bars = (hist.n + TICK_SIZE - 1) \div TICK_SIZE

\* a full bar, then the rest of the stream flushed as a shorter bar
C9_Witness ==
    /\ variant = "tick"
    /\ done
    /\ out # <<>>
    /\ hist.bars = 2
    /\ hist.shut.n < TICK_SIZE
    /\ hist.n = TICK_SIZE + hist.shut.n

\* C10: in streamOneMinuteBars the trades of one bar all fall in the minute
\* the bar's timestamp names, and when the timestamps of the stream never
\* decrease the minutes of consecutive yielded bars strictly increase
C10_MinuteBuckets ==
    variant \in {"minute", "minuteV2"}
        => /\ current # <<>>
                => /\ hist.open.keys = {current[1].timestamp.min}
                   /\ current[1].timestamp.sec = 0
                   /\ current[1].timestamp.ms = 0
           /\ out # <<>>
                => /\ hist.shut.keys = {out[1].timestamp.min}
                   /\ out[1].timestamp.sec = 0
                   /\ out[1].timestamp.ms = 0
           /\ (hist.sorted /\ Len(hist.stamps) = 2)
                => hist.stamps[1].min < hist.stamps[2].min

\* three trades in time order, two of them in the first of two bars
C10_Witness ==
    /\ variant = "minute"
    /\ done
    /\ hist.sorted
    /\ hist.n = 3
    /\ hist.bars = 2
    /\ hist.stamps[1].min < hist.stamps[2].min
    /\ hist.ts = 60 * 1000

\* C11: when the stream ends while a bar is open, the generator yields exactly
\* one more bar, which holds exactly the trades buffered in the open bar, and
\* returns; when no bar is open it yields nothing more.  Over the whole run
\* every consumed trade is held by exactly one yielded bar: the trades of the
\* yielded bars and of the open bar add up to the trades consumed
C11_FinalFlush ==
    [][/\ (done' /\ ~done /\ current # <<>>)
            => /\ out' # <<>>
               /\ hist'.bars = hist.bars + 1
               /\ hist'.shut.n = hist.open.n
               /\ hist.open.n >= 1
               /\ out'[1].volume = hist.open.size
               /\ out'[1].open = hist.open.first
               /\ out'[1].close = hist.open.last
               /\ hist'.emitted = hist'.n
               /\ hist'.n = hist.n
       /\ (done' /\ ~done /\ current = <<>>)
            => /\ out' = <<>>
               /\ hist'.bars = hist.bars
               /\ hist.open.n = 0
               /\ hist'.emitted = hist'.n
       /\ ~done' => hist'.emitted + hist'.open.n = hist'.n
       /\ (~done' /\ current' = <<>>) => hist'.open.n = 0
       /\ (~done' /\ variant = "tick") => tickCount' = hist'.open.n
       /\ done => UNCHANGED vars]_vars

\* a minute bar closed by a change of minute, then the stream ends with one
\* trade buffered
C11_Witness ==
    /\ variant = "minuteV2"
    /\ done
    /\ out # <<>>
    /\ hist.bars = 2
    /\ hist.shut.n = 1
    /\ hist.emitted = hist.n
    /\ hist.n = 3

\* a yielded bar against the tally of its trades, the delta left aside
BarIsAggregate ==
    out # <<>>
        => /\ hist.shut.n >= 1
           /\ out[1].open = hist.shut.first
           /\ out[1].close = hist.shut.last
           /\ out[1].high \in hist.shut.prices
           /\ out[1].low \in hist.shut.prices
           /\ \A px \in hist.shut.prices : out[1].low <= px /\ px <= out[1].high
           /\ out[1].low <= out[1].open /\ out[1].open <= out[1].high
           /\ out[1].low <= out[1].close /\ out[1].close <= out[1].high
           /\ out[1].volume = hist.shut.size

\* C12 as stated: every yielded bar has open = first price, close = last
\* price, high = greatest price, low = least price, volume = sum of sizes and
\* delta = sum of the signed deltas (+size, -size, 0) of exactly its trades
C12_AsStated ==
    /\ BarIsAggregate
    /\ out # <<>> => out[1].delta = hist.shut.delta

\* the part of C12 that holds in every generator
C12_ExceptDelta == BarIsAggregate

\* the part of C12 about the delta, in streamOneMinuteBars of indicator.ts
C12_DeltaInMinuteBars ==
    (variant = "minute" /\ out # <<>>) => out[1].delta = hist.shut.delta

\* the three windows after the step are the windows before it with the bar
\* just processed appended and the oldest entry evicted on overflow
BarPushed ==
    /\ lastBar' # <<>>
    /\ cvdWindow' = PushShift(cvdWindow, lastBar'[1].cvd)
    /\ priceWindow' = PushShift(priceWindow, lastBar'[1].close)
    /\ volumeWindow' = PushShift(volumeWindow, lastBar'[1].volume)

\* C13 as stated: every bar the loop receives is appended to the three
\* windows, the oldest entry being evicted on overflow, also while a position
\* is open and on the bar of an exit; the windows are never reset.  Hence the
\* windows at a fit are the last K bars in order
C13_AsStated == [][BarPushed]_vars

\* the part of C13 that holds: the entry-only main and CdStrategy append
\* every bar; main appends every bar except the bar of an exit, which leaves
\* the windows as they were; no step shortens a window
C13_ExceptExitBars ==
    [][/\ event' \notin Exits => BarPushed
       /\ event' \in Exits
            => /\ variant = "main"
               /\ UNCHANGED <<cvdWindow, priceWindow, volumeWindow>>
       /\ Len(cvdWindow') >= Len(cvdWindow)
       /\ Len(cvdWindow') = Len(priceWindow')
       /\ Len(cvdWindow') = Len(volumeWindow')
       /\ Len(cvdWindow') <= WINDOW_SIZE
       /\ event' \in Evaluations => Len(cvdWindow') = WINDOW_SIZE]_vars

\* the line keeps to its side of every value of the window, up to 1e-5
Feasible(support, y, line) ==
    LET N == Len(y)
    IN \A i \in 0..(N - 1) :
          LET d == y[i + 1] * SlopeDen(N) - LineAt(line, i)
          IN IF support THEN SignScaled(d, FeasSlack(N)) >= 0
             ELSE SignScaled(d, -FeasSlack(N)) <= 0

\* C14: for every window of length K >= 2, when a slope search has ended by
\* step-size exhaustion and not by bail-out, the support line it returned has
\* y[i] - supportLine[i] >= -1e-5 at every index and the resistance line it
\* returned has y[i] - resistLine[i] <= 1e-5 at every index
C14_FeasibleOnExhaustion ==
    /\ (call.phase \in {"resist", "done"} /\ ~call.left[1].bailed)
          => Feasible(TRUE, call.y, call.sup[1])
    /\ (call.phase = "done" /\ ~call.left[2].bailed)
          => Feasible(FALSE, call.y, call.res[1])

\* a fit has returned, both searches ran to step-size exhaustion and both
\* moved away from the seed slope
C14_Witness ==
    /\ call.phase = "done"
    /\ ~call.left[1].bailed /\ ~call.left[2].bailed
    /\ call.left[1].bestSlope # 0 /\ call.left[2].bestSlope # 0
    /\ Len(call.y) = WINDOW_SIZE

C16_Classification ==
    call.phase = "done" =>
       LET y == call.y
           N == Len(y)
           r == call.ret[1]
           resistLast == LineAt([slope |-> r.resSlope, intercept |-> r.resInt], N - 1)
           supportLast == LineAt([slope |-> r.supSlope, intercept |-> r.supInt], N - 1)
           last == y[N] * SlopeDen(N)
           \* 1000 * (resistLast - last) <= |resistLast|
           atResist == resistLast - last <= Abs(resistLast) \div TolPctInv
           \* 1000 * (last - supportLast) <= |resistLast|
           atSupport == last - supportLast <= Abs(resistLast) \div TolPctInv
       IN /\ r.breakout = "bullish" <=> atResist
          /\ r.breakout = "bearish" <=> (~atResist /\ atSupport)
          /\ r.breakout = "none" <=> (~atResist /\ ~atSupport)

\* a fit of a window that is not flat has returned bullish with the last
\* value within tol of both lines
C16_Witness ==
    /\ call.phase = "done"
    /\ Range(call.y) > 0
    /\ call.ret[1].breakout = "bullish"
    /\ LET N == Len(call.y)
           r == call.ret[1]
       IN call.y[N] * SlopeDen(N) - LineAt([slope |-> r.supSlope, intercept |-> r.supInt], N - 1)
             <= Abs(LineAt([slope |-> r.resSlope, intercept |-> r.resInt], N - 1)) \div TolPctInv

\* C17: the slope search stops after at most 20 * K loop iterations or once
\* 5 * K consecutive non-improving iterations have occurred, whichever comes
\* first, and then returns the best feasible slope found as a normal result
C17_AsStated ==
    call.phase \in {"support", "resist"} =>
       /\ call.st.iters <= Len(call.y) * MaxItersPerBar
       /\ call.st.noImprove <= Len(call.y) * MaxNoImprovePerBar

\* the same for the optimizeSlope that has the V3 counters, with what it
\* returns after a bail-out
C17_WithCounters ==
    Bails =>
       /\ C17_AsStated
       /\ \A k \in 1..2 :
             (k <= Len(call.left) /\ call.left[k].bailed) =>
                LET line == IF k = 1 THEN call.sup[1] ELSE call.res[1]
                    c == CallCtx(k = 1, call.y)
                IN /\ line.slope = c.init + call.left[k].bestSlope
                   /\ ~call.left[k].bestErr.inf
                   /\ Feasible(k = 1, call.y, line)

\* a search of the variant with counters has bailed out and the fit has gone
\* on to classify
C17_Bailed ==
    /\ Bails
    /\ call.phase = "done"
    /\ call.left[1].bailed
    /\ call.ret[1].breakout \in {"bullish", "bearish", "none"}

\* C18: whenever the direction delta (probe score minus best score) is
\* computed, the probe score is the squared error of a feasible line, also
\* when both the forward and the backward minimum-step probes are infeasible
C18_AsStated ==
    call.phase \in {"support", "resist"} => ~call.st.mixed

\* the same on windows narrow enough for one of the two probes to be feasible
C18_NarrowWindows ==
    (call.phase \in {"support", "resist"} /\ Range(call.y) <= 100)
       => ~call.st.mixed

\* the fit that the running variant's loop takes of its CVD window
FitOfVariant ==
    IF variant = "entryOnly" THEN fitTrendlinesWindowV3(cvdWindow)
    ELSE fitTrendlinesWindow(cvdWindow)

\* C19: the signal that leaves the filter cascade is the fitter's raw breakout
\* or none, for every window, every reversal memory and every price and volume
\* window: a raw none never becomes a direction and a raw direction is never
\* turned into the opposite one
C19_DemoteOnly ==
    /\ event \in Evaluations => signal \in {breakout, "none"}
    /\ Len(cvdWindow) = WINDOW_SIZE =>
          \A last \in {"null", "bullish", "bearish"} :
             \A f \in {fitTrendlinesWindow(cvdWindow), fitTrendlinesWindowV3(cvdWindow)} :
                Cascade(f, last, priceWindow[WINDOW_SIZE], volumeWindow[WINDOW_SIZE],
                        priceWindow, volumeWindow) \in {f.breakout, "none"}

\* a raw bearish breakout was demoted to none by the cascade
C19_Witness ==
    /\ event \in Evaluations
    /\ breakout = "bearish"
    /\ signal = "none"

\* C20: whenever an entry is taken, on that bar's windows: a bullish entry has
\* resistance slope > 0, close > every one of the K-1 prior closes and volume >
\* the mean of the K-1 prior volumes; a bearish entry has support slope < 0,
\* close < every one of the K-1 prior closes and volume > that mean
C20_EntryConditions ==
    event = "entry" =>
       LET K == WINDOW_SIZE
           close == lastBar[1].close
           vol == lastBar[1].volume
           priorVolumes == SumSeq([i \in 1..(K - 1) |-> volumeWindow[i]])
       IN /\ signal \in {"bullish", "bearish"}
          /\ priceWindow[K] = close /\ volumeWindow[K] = vol
          /\ vol * (K - 1) > priorVolumes
          /\ signal = "bullish" =>
                /\ FitOfVariant.resSlope > 0
                /\ \A i \in 1..(K - 1) : close > priceWindow[i]
          /\ signal = "bearish" =>
                /\ FitOfVariant.supSlope < 0
                /\ \A i \in 1..(K - 1) : close < priceWindow[i]

\* main has taken a bearish entry
C20_Witness ==
    /\ variant = "main"
    /\ event = "entry"
    /\ signal = "bearish"
    /\ position = "bearish"

\* C21: in main, entry and exit evaluation exclude each other within one bar
\* and a bar produces at most one position event: a bar that starts with a
\* position open is tested for exit and not evaluated for entry (nothing is
\* fitted, the stop and the target are left alone, the position is kept or
\* closed, never replaced), and a bar on which an entry is taken started
\* without a position and so was not tested for an exit
C21_OneEventPerBar ==
    [][variant = "main" =>
          /\ position # "null"
                => /\ event' \notin Evaluations
                   /\ position' \in {position, "null"}
                   /\ position' = "null" <=> event' \in Exits
                   /\ UNCHANGED <<stopPrice, targetPrice, breakout, signal>>
          /\ position = "null"
                => /\ event' \notin Exits
                   /\ hit' = NoHit
                   /\ position' # "null" <=> event' = "entry"]_vars

\* main has taken an entry on a bar, with no exit test met on that bar
C21_Witness ==
    /\ variant = "main"
    /\ event = "entry"
    /\ position # "null"
    /\ hit = NoHit

\* C22: for a window whose K CVD values are all equal fitTrendlinesWindow
\* returns, the signal that leaves the filter cascade is none and no entry is
\* taken on that bar
C22_FlatWindow ==
    /\ (event \in Evaluations /\ Range(cvdWindow) = 0)
          => /\ breakout \in {"bullish", "bearish", "none"}
             /\ signal = "none"
             /\ event = "noEntry"
    /\ (Len(cvdWindow) = WINDOW_SIZE /\ Range(cvdWindow) = 0)
          => \A last \in {"null", "bullish", "bearish"} :
                \A f \in {fitTrendlinesWindow(cvdWindow), fitTrendlinesWindowV3(cvdWindow)} :
                   Cascade(f, last, priceWindow[WINDOW_SIZE], volumeWindow[WINDOW_SIZE],
                           priceWindow, volumeWindow) = "none"

\* a flat CVD window was evaluated on a bar that passes the reversal, price
\* and volume stages as a bullish signal
C22_Witness ==
    /\ event = "noEntry"
    /\ Range(cvdWindow) = 0
    /\ breakout = "bullish"
    /\ lastSignal # "bullish"
    /\ \A i \in 1..(WINDOW_SIZE - 1) :
          /\ priceWindow[i] < priceWindow[WINDOW_SIZE]
          /\ volumeWindow[i] < volumeWindow[WINDOW_SIZE]

\* C26: when optimizeSlope re-derives its direction from the backward probe
\* (the forward probe being infeasible), the next trial moves the slope toward
\* the side on which the probed error is lower: down when the backward
\* probe's error is below the best error, up when it is above
C26_AsStated ==
    (call.phase \in {"support", "resist"} /\ call.st.probed /\ call.st.back)
       => /\ call.st.derivative < 0 => call.st.turn = -1
          /\ call.st.derivative > 0 => call.st.turn = 1

\* what the loop does with the delta of a backward probe: the same as with
\* the delta of a forward probe
C26_SignAsForward ==
    (call.phase \in {"support", "resist"} /\ call.st.probed)
       => /\ call.st.derivative > 0 => call.st.turn = -1
          /\ call.st.derivative <= 0 => call.st.turn = 1

\* a direction was derived from a backward probe whose error is below the
\* best error
C26_BackwardLower ==
    /\ call.phase \in {"support", "resist"}
    /\ call.st.probed /\ call.st.back
    /\ call.st.derivative < 0

\* C27: optimizeSlope terminates for every window of length K >= 2 in every
\* variant, all-equal windows and the variants without bail-out counters
\* included: each pass of the loop halves the step or strictly lowers the
\* best error (or bails out), the loop is left once the step is <= 1e-4 and
\* only then (or on bail-out), and no run of a fit goes on taking steps for
\* ever
C27_Terminates ==
    /\ [][(call.phase \in {"support", "resist"} /\ call'.phase = call.phase)
            => LET c == CallCtx(call.phase = "support", call.y)
               IN /\ call.st.optStep * MinStepInv > StepScale
                  /\ \/ call'.st.optStep * 2 = call.st.optStep
                     \/ /\ call'.st.optStep = call.st.optStep
                        /\ ErrCmp(c, call'.st.bestErr, call.st.bestErr) < 0
                     \/ Bails /\ call'.st.bailed]_vars
    /\ [][call'.phase # call.phase
            => \/ call.st.optStep * MinStepInv <= StepScale
               \/ Bails /\ call.st.bailed]_vars
    /\ <>[][FALSE]_vars

\* the fit of a window has returned from the version without counters after
\* passes that lowered the error and passes that halved the step
C27_Witness ==
    /\ variant = "fit"
    /\ call.phase = "done"
    /\ \A k \in 1..2 : /\ call.left[k].bestSlope # 0
                       /\ call.left[k].optStep * MinStepInv <= StepScale
                       /\ call.left[k].iters > 14

\* C28: fitTrendlinesWindow is only ever called with a window of exactly
\* WINDOW_SIZE values: while fewer bars have been pushed no fit, filter or
\* entry is evaluated, and after each bar the CVD, price and volume windows
\* have the same length, which is at most WINDOW_SIZE
C28_WindowLengths ==
    /\ Len(cvdWindow) = Len(priceWindow)
    /\ Len(cvdWindow) = Len(volumeWindow)
    /\ Len(cvdWindow) <= WINDOW_SIZE
    /\ event \in Evaluations => Len(cvdWindow) = WINDOW_SIZE
    /\ Len(cvdWindow) < WINDOW_SIZE
          => /\ event \in {"start", "warmup"}
             /\ breakout = "nofit" /\ signal = "nofit"
             /\ position = "null" /\ lastSignal = "null"

\* a bar was evaluated on windows of WINDOW_SIZE values each
C28_Witness ==
    /\ event \in Evaluations
    /\ Len(cvdWindow) = WINDOW_SIZE
    /\ Len(priceWindow) = WINDOW_SIZE
    /\ Len(volumeWindow) = WINDOW_SIZE

\* C29: in main, while a position is open, a bar that touches neither its
\* stop nor its target leaves position, stopPrice, targetPrice and lastSignal
\* unchanged and only advances the three windows; the position is closed on a
\* bar if and only if the bar touches the stop or the target
C29_HoldUntilTouched ==
    [][(variant = "main" /\ position # "null") =>
          /\ hit'.pos = position
          /\ (~hit'.stop /\ ~hit'.target)
                => /\ UNCHANGED <<position, stopPrice, targetPrice, lastSignal>>
                   /\ cvdWindow' = PushShift(cvdWindow, lastBar'[1].cvd)
                   /\ priceWindow' = PushShift(priceWindow, lastBar'[1].close)
                   /\ volumeWindow' = PushShift(volumeWindow, lastBar'[1].volume)
          /\ position' = "null" <=> (hit'.stop \/ hit'.target)]_vars

\* main has held a position over a bar that touched neither level
C29_Witness ==
    /\ variant = "main"
    /\ event = "inPosition"
    /\ position # "null"
    /\ hit.pos = position
    /\ ~hit.stop /\ ~hit.target

\* the line of the search in progress: init + bestSlope through the pivot
BestLine == OptResult(CallCtx(call.phase = "support", call.y), call.st)

\* C30: throughout optimizeSlope the best slope is feasible: the seed line
\* through the pivot chosen by fitTrendlinesWindow is feasible (the initial
\* best error is >= 0), the best error is never the infeasible marker, it
\* changes only to the strictly smaller error of a feasible trial, and the
\* line returned keeps to its side on every exit path, bail-out included
C30_BestStaysFeasible ==
    /\ [](call.phase \in {"support", "resist"}
            => /\ ~call.st.bestErr.inf
               /\ call.st.bestErr.n = call.st.bestSlope /\ call.st.bestErr.eps = 0
               /\ Feasible(call.phase = "support", call.y, BestLine))
    /\ [](/\ call.phase \in {"resist", "done"} => Feasible(TRUE, call.y, call.sup[1])
          /\ call.phase = "done" => Feasible(FALSE, call.y, call.res[1]))
    /\ [][(call.phase \in {"support", "resist"} /\ call'.phase = call.phase
           /\ call'.st.bestSlope # call.st.bestSlope)
            => ErrCmp(CallCtx(call.phase = "support", call.y),
                      call'.st.bestErr, call.st.bestErr) < 0]_vars

\* a resistance search in progress has adopted a trial and then rejected one,
\* after a support search that moved off the seed and returned
C30_Witness ==
    /\ call.phase = "resist"
    /\ call.left[1].bestSlope # 0
    /\ call.st.bestSlope # 0
    /\ call.st.noImprove > 0
    /\ call.st.optStep * MinStepInv > StepScale

\* C25: the cvd_color of an emitted bar is, in weak mode, green / red / gray
\* as its close is above / below / equal to its open; in strong mode green if
\* its close is above the high of the bar emitted just before it, red if it is
\* below that bar's low, else gray, and for the first bar of a run the
\* weak-mode colour
C25_Colours ==
    [][out' # <<>> =>
          LET bar == out'[1]
              weak == IF bar.close > bar.open THEN "green"
                      ELSE IF bar.close < bar.open THEN "red"
                      ELSE "gray"
              \* the prices of the trades of the bar emitted before this one
              before == hist.shut.prices
          IN /\ hist'.bars = hist.bars + 1
             /\ (~strongUpdown \/ hist.bars = 0) => bar.cvd_color = weak
             /\ (strongUpdown /\ hist.bars > 0) =>
                   /\ bar.cvd_color = "green" <=> \A p \in before : bar.close > p
                   /\ bar.cvd_color = "red" <=> \E p \in before : \A q \in before :
                                                      p <= q /\ bar.close < p
                   /\ bar.cvd_color \in {"green", "red", "gray"}]_vars

\* in strong mode a bar after the first has been emitted green although its
\* close is not above its open
C25_Witness ==
    /\ strongUpdown
    /\ out # <<>>
    /\ hist.bars >= 2
    /\ out[1].cvd_color = "green"
    /\ out[1].close <= out[1].open

\* ------------------------------------------------ several runs side by side
\* the locals of one call of a bar generator: "let current = null; let
\* runningCvd = 0; let prevHigh = null; let prevLow = null" (and tickCount)
GenInit ==
    [current |-> <<>>, runningCvd |-> 0, prevHigh |-> <<>>, prevLow |-> <<>>,
     tickCount |-> 0]

\* the bar as a generator with previous extremes pHigh, pLow and colour
\* mode strong yields it
Yielded(bar, pHigh, pLow, strong) ==
    [timestamp |-> bar.timestamp, open |-> bar.open, high |-> bar.high,
     low |-> bar.low, close |-> bar.close, volume |-> bar.volume,
     delta |-> bar.delta, cvd_running |-> bar.cvd_running,
     cvd |-> bar.cvd_running,
     cvd_color |-> getCvdColor(bar.close, bar.open, pHigh, pLow, strong)]

\* the for-await body of streamOneMinuteBars on trade t, run on the locals g:
\* the locals it leaves and the bar it yields, <<>> for none
GenMinute(g, t, delta, strong) ==
    LET iso == toISOString(setSeconds0(t.ts_ms))
        cvd == g.runningCvd + delta
        opens == g.current = <<>> \/ g.current[1].timestamp # iso
        yields == opens /\ g.current # <<>>
    IN [next |-> [g EXCEPT
                    !.runningCvd = cvd,
                    !.current = IF opens THEN <<NewBar(iso, t, delta, cvd)>>
                                ELSE <<ExtendBar(g.current[1], t, delta, cvd)>>,
                    !.prevHigh = IF yields THEN <<g.current[1].high>>
                                 ELSE g.prevHigh,
                    !.prevLow = IF yields THEN <<g.current[1].low>>
                                ELSE g.prevLow],
        out |-> IF yields
                THEN <<Yielded(g.current[1], g.prevHigh, g.prevLow, strong)>>
                ELSE <<>>]

\* the for-await body of streamTickBars on trade t, run on the locals g
GenTick(g, t, strong) ==
    LET iso == toISOString(t.ts_ms)
        delta == deltaTwoSided(t.side, t.size)
        cvd == g.runningCvd + delta
        count == g.tickCount + 1
        bar == IF g.current = <<>> THEN NewBar(iso, t, delta, cvd)
               ELSE ExtendBar(g.current[1], t, delta, cvd)
    IN IF TickBarFull(count)
       THEN [next |-> [g EXCEPT !.runningCvd = cvd,
                                !.current = <<>>,
                                !.prevHigh = <<bar.high>>,
                                !.prevLow = <<bar.low>>,
                                !.tickCount = 0],
             out |-> <<Yielded(bar, g.prevHigh, g.prevLow, strong)>>]
       ELSE [next |-> [g EXCEPT !.runningCvd = cvd,
                                !.current = <<bar>>,
                                !.tickCount = count],
             out |-> <<>>]

\* the code after the loop of a generator, run on the locals g
GenFlush(g, strong) ==
    [next |-> g,
     out |-> IF g.current # <<>>
             THEN <<Yielded(g.current[1], g.prevHigh, g.prevLow, strong)>>
             ELSE <<>>]

\* one trade read by the generator named kind
GenStep(kind, g, t, strong) ==
    IF kind = "minute"
    THEN GenMinute(g, t, deltaFromSide(t.side, t.size), strong)
    ELSE IF kind = "minuteV2"
    THEN GenMinute(g, t, deltaTwoSided(t.side, t.size), strong)
    ELSE GenTick(g, t, strong)

\* the locals of main before the first bar, and the fields of a new CdStrategy
LoopNew ==
    [cvdWindow |-> <<>>, priceWindow |-> <<>>, volumeWindow |-> <<>>,
     lastSignal |-> "null", position |-> "null", stopPrice |-> 0,
     targetPrice |-> 0, cvdRunning |-> 0, event |-> "start"]

\* from the fit f to the entry on the locals s, whose windows hold bar b
EnterOn(s, b, f) ==
    LET sig == Cascade(f, s.lastSignal,
                       b.close, b.volume, s.priceWindow, s.volumeWindow)
        stop == EntryStop(sig, s.priceWindow)
    IN IF sig # "none"
       THEN [s EXCEPT !.event = "entry",
                      !.lastSignal = sig,
                      !.stopPrice = stop,
                      !.targetPrice = EntryTarget(sig, b.close, stop),
                      !.position = sig]
       ELSE [s EXCEPT !.event = "noEntry"]

\* the for-await body of main (indicatorV2.ts) on bar b, run on the locals s
MainOn(s, b) ==
    LET exit == ExitCheck(s.position, s.stopPrice, s.targetPrice, b)
        pushed == [s EXCEPT !.cvdWindow = PushShift(s.cvdWindow, b.cvd),
                            !.priceWindow = PushShift(s.priceWindow, b.close),
                            !.volumeWindow = PushShift(s.volumeWindow, b.volume)]
    IN IF exit # "open"
       THEN [s EXCEPT !.event = exit,
                      !.position = "null",
                      !.lastSignal = ExitLastSignal(s.lastSignal)]
       ELSE IF Len(pushed.cvdWindow) < WINDOW_SIZE
       THEN [pushed EXCEPT !.event = "warmup"]
       ELSE IF SkipEntries(s.position)
       THEN [pushed EXCEPT !.event = "inPosition"]
       ELSE EnterOn(pushed, b, fitTrendlinesWindow(pushed.cvdWindow))

\* CdStrategy.onCandle (indicatorV2.ts) on the candle c of one print, run on
\* the fields s:
\* the running CVD of the instance is the candle's cdv
CdOn(s, c) ==
    LET cvd == s.cvdRunning + deltaFromSide(c.side, c.size)
        b == [cvd |-> cvd, close |-> c.close, volume |-> c.volume]
        pushed == [s EXCEPT !.cvdRunning = cvd,
                            !.cvdWindow = PushShift(s.cvdWindow, b.cvd),
                            !.priceWindow = PushShift(s.priceWindow, b.close),
                            !.volumeWindow = PushShift(s.volumeWindow, b.volume)]
    IN IF Len(pushed.cvdWindow) < WINDOW_SIZE
       THEN [pushed EXCEPT !.event = "warmup"]
       ELSE EnterOn(pushed, b, fitTrendlinesWindowV3(pushed.cvdWindow))

\* what a CdStrategy shows after a candle
Shown(s) ==
    [event |-> s.event, position |-> s.position, lastSignal |-> s.lastSignal,
     stopPrice |-> s.stopPrice, targetPrice |-> s.targetPrice,
     cvd |-> s.cvdRunning]

\* the trades the runs side by side read
PairTrades ==
    { [px |-> 1, size |-> 1, side |-> "B", ts_ms |-> 0],
      [px |-> 2, size |-> 2, side |-> "A", ts_ms |-> 0],
      [px |-> 1, size |-> 1, side |-> "N", ts_ms |-> 60 * 1000] }

\* the candles the instances side by side receive
PairCandles ==
    { [side |-> "N", size |-> 1, close |-> 0, volume |-> 1],
      [side |-> "B", size |-> 1, close |-> 1, volume |-> 2],
      [side |-> "A", size |-> 1, close |-> 0, volume |-> 2] }

\* one record of locals, or of fields, for all the runs
SlotShared(i) == 1

\* where the locals of run i are: each call of a generator function has its
\* own, and each CdStrategy object has its own fields
Slot(i) == i

\* a run that has read and emitted nothing
NewRun(locals) == [locals |-> locals, ins |-> <<>>, outs |-> <<>>, ended |-> FALSE]

\* run i of a bar generator reads trade t
PairTrade(i, t) ==
    LET r == GenStep(variant, twin.runs[Slot(i)].locals, t, strongUpdown)
    IN /\ variant \in {"minute", "minuteV2", "tick"}
       /\ ~twin.runs[i].ended
       /\ Len(twin.runs[i].ins) < MaxTrades
       /\ twin' = [twin EXCEPT !.runs[Slot(i)].locals = r.next,
                               !.runs[i].ins = Append(@, t),
                               !.runs[i].outs = @ \o r.out,
                               !.last = i,
                               !.mixed = @ \/ (twin.last # i /\ twin.last # 0
                                               /\ twin.runs[i].ins # <<>>)]

\* the trade stream of run i ends
PairEnd(i) ==
    LET r == GenFlush(twin.runs[Slot(i)].locals, strongUpdown)
    IN /\ variant \in {"minute", "minuteV2", "tick"}
       /\ ~twin.runs[i].ended
       /\ twin' = [twin EXCEPT !.runs[i].ended = TRUE,
                               !.runs[i].outs = @ \o r.out,
                               !.last = i,
                               !.mixed = @ \/ (twin.last # i /\ twin.last # 0
                                               /\ twin.runs[i].ins # <<>>)]

\* CdStrategy instance i receives candle c, one that keeps its running CVD
\* in CvdValues
PairCandle(i, c) ==
    LET s == CdOn(twin.runs[Slot(i)].locals, c)
    IN /\ variant = "cd"
       /\ Len(twin.runs[i].ins) < PairCandlesMax
       /\ twin.runs[Slot(i)].locals.cvdRunning + deltaFromSide(c.side, c.size) \in CvdValues
       /\ twin' = [twin EXCEPT !.runs[Slot(i)].locals = s,
                               !.runs[i].ins = Append(@, c),
                               !.runs[i].outs = Append(@, Shown(s)),
                               !.last = i,
                               !.mixed = @ \/ (twin.last # i /\ twin.last # 0
                                               /\ twin.runs[i].ins # <<>>)]

PairTradeStep ==
    /\ \E i \in 1..2, t \in PairTrades : PairTrade(i, t)
    /\ UNCHANGED <<loopVars, tape, barVars, call, pager>>

PairEndStep ==
    /\ \E i \in 1..2 : PairEnd(i)
    /\ UNCHANGED <<loopVars, tape, barVars, call, pager>>

PairCandleStep ==
    /\ \E i \in 1..2, c \in PairCandles : PairCandle(i, c)
    /\ UNCHANGED <<loopVars, tape, barVars, call, pager>>

\* two calls of one generator function, or two CdStrategy objects
PairStart ==
    /\ variant \in {"minute", "minuteV2", "tick", "cd"}
    /\ twin = [runs |-> IF variant = "cd"
                        THEN <<NewRun(LoopNew), NewRun(LoopNew)>>
                        ELSE <<NewRun(GenInit), NewRun(GenInit)>>,
               last |-> 0,      \* the run that moved last
               mixed |-> FALSE] \* a run has moved on after the other one did
    /\ strongUpdown = TRUE
    /\ call = NoCall
    /\ pager = NoPager
    /\ BarInit
    /\ LoopInit
    /\ tape = <<>>

PairNext == PairTradeStep \/ PairEndStep \/ PairCandleStep

SpecPair == PairStart /\ [][PairNext]_vars

\* what one call of the generator kind yields on the trades ins, the stream
\* having ended or not, when nothing else runs
RECURSIVE GenAlone(_, _, _, _, _)
GenAlone(kind, g, ins, ended, strong) ==
    IF ins = <<>>
    THEN IF ended THEN GenFlush(g, strong).out ELSE <<>>
    ELSE LET r == GenStep(kind, g, Head(ins), strong)
         IN r.out \o GenAlone(kind, r.next, Tail(ins), ended, strong)

\* what one CdStrategy shows candle after candle on ins when it is the only one
RECURSIVE CdAlone(_, _)
CdAlone(s, ins) ==
    IF ins = <<>> THEN <<>>
    ELSE <<Shown(CdOn(s, Head(ins)))>> \o CdAlone(CdOn(s, Head(ins)), Tail(ins))

Alone(r) ==
    IF variant = "cd" THEN CdAlone(LoopNew, r.ins)
    ELSE GenAlone(variant, GenInit, r.ins, r.ended, strongUpdown)

CandleTinted(bar) ==
    [cvd |-> IF bar.cvd_color = "gray" THEN bar.cvd ELSE bar.cvd + 1,
     close |-> bar.close, volume |-> bar.volume,
     down |-> bar.close - bar.low, up |-> bar.high - bar.close]

\* what main reads of a yielded bar: bar.cvd, bar.close, bar.volume, bar.low
\* and bar.high, the last two as distances from the close
Candle(bar) ==
    [cvd |-> bar.cvd, close |-> bar.close, volume |-> bar.volume,
     down |-> bar.close - bar.low, up |-> bar.high - bar.close]

\* a trade of minute m
TradeAt(m, px, size, side) ==
    [px |-> px, size |-> size, side |-> side, ts_ms |-> m * 60 * 1000]

\* the trades that may come once the window is full
LateTrades(m) ==
    {TradeAt(m, px, 1, "A") : px \in {1, 2, 4}}
        \cup {TradeAt(m, px, 3, "B") : px \in {1, 2, 4}}

\* the trade stream of the two runs, trade by trade the trades that may
\* come: four one-minute bars of two trades each that cancel in the CVD, a
\* fifth of two buys at a higher price, then one trade a minute
Script ==
    << {TradeAt(0, 1, 1, "B")}, {TradeAt(0, 1, 1, "A")},
       {TradeAt(1, 1, 1, "B"), TradeAt(1, 2, 1, "B")}, {TradeAt(1, 1, 1, "A")},
       {TradeAt(2, 1, 1, "B")}, {TradeAt(2, 1, 1, "A")},
       {TradeAt(3, 1, 1, "B"), TradeAt(3, 2, 1, "B")}, {TradeAt(3, 1, 1, "A")},
       {TradeAt(4, 2, 2, "B")}, {TradeAt(4, 2, 1, "B")},
       LateTrades(5), LateTrades(6), LateTrades(7) >>

\* the second run on what its generator yielded
TwinBar(r) ==
    [twin EXCEPT !.gen = r.next,
                 !.out = r.out,
                 !.loop = IF r.out # <<>> THEN MainOn(twin.loop, Candle(r.out[1]))
                          ELSE twin.loop]

\* main of the first run on what its generator yielded
PipeBar ==
    IF out' # <<>> THEN MainBar(Candle(out'[1])) ELSE UNCHANGED loopVars

\* both runs read the next trade of the stream
PipeTrade ==
    /\ variant = "pipeline"
    /\ ~done
    /\ hist.n < Len(Script)
    /\ \E t \in Script[hist.n + 1] :
          /\ MinuteTrade(t, deltaTwoSided(t.side, t.size))
          /\ twin' = TwinBar(GenMinute(twin.gen, t,
                                       deltaTwoSided(t.side, t.size),
                                       twin.strong))
    /\ PipeBar
    /\ UNCHANGED <<tape, call, pager>>

\* the stream of both runs ends
PipeEnd ==
    /\ variant = "pipeline"
    /\ ~done
    /\ Flush
    /\ twin' = TwinBar(GenFlush(twin.gen, twin.strong))
    /\ PipeBar
    /\ UNCHANGED <<tape, call, pager>>

\* main with streamOneMinuteBars called with strongUpdown true, and beside it
\* a second run of both with either value of strongUpdown
PipeStart ==
    /\ variant = "pipeline"
    /\ strongUpdown = TRUE
    /\ \E b \in BOOLEAN :
          twin = [strong |-> b, gen |-> GenInit, loop |-> LoopNew, out |-> <<>>]
    /\ call = NoCall
    /\ pager = NoPager
    /\ BarInit
    /\ LoopInit
    /\ tape = <<>>

PipeNext == PipeTrade \/ PipeEnd

SpecPipe == PipeStart /\ [][PipeNext]_vars

\* the fields of a bar other than its colour
Uncoloured(bar) == [f \in (DOMAIN bar) \ {"cvd_color"} |-> bar[f]]

\* the locals of the first run's main as a record
LoopNow ==
    [cvdWindow |-> cvdWindow, priceWindow |-> priceWindow,
     volumeWindow |-> volumeWindow, lastSignal |-> lastSignal,
     position |-> position, stopPrice |-> stopPrice,
     targetPrice |-> targetPrice, cvdRunning |-> 0, event |-> event]

\* C24: the same trade stream run with strongUpdown true and with
\* strongUpdown false (or true again): after every trade and at the end of
\* the stream both generators have yielded a bar or neither has, the two
\* bars agree on every field other than cvd_color, and the two mains hold
\* the same windows, position, reversal memory, stop and target and have
\* taken the same entry, exit or other branch.
C24_ColourBlind ==
    /\ (out = <<>>) <=> (twin.out = <<>>)
    /\ out # <<>> => Uncoloured(out[1]) = Uncoloured(twin.out[1])
    /\ twin.strong /\ out # <<>> => out = twin.out
    /\ twin.loop = LoopNow

\* C24: the weak-mode run and the strong-mode run have just yielded bars of
\* different colours, and on them both mains closed a position
C24_Witness ==
    /\ ~twin.strong
    /\ out # <<>>
    /\ out[1].cvd_color # twin.out[1].cvd_color
    /\ event \in Exits
    /\ twin.loop.event = event

\* C31: in main, before every bar lastSignal equals position (both null or
\* both the direction of the open position); so whenever the filter cascade
\* runs lastSignal is null and the reversal stage passes the raw breakout on
\* unchanged.
C31_MemoryIsPosition ==
    /\ [](variant = "main" => lastSignal = position)
    /\ [][variant = "main" /\ event' \in Evaluations
          => /\ lastSignal = "null"
             /\ ReversalFilter(breakout', lastSignal) = breakout']_vars

\* C31: main has just closed a position, clearing both, after having entered
\* on an earlier bar
C31_Witness ==
    /\ variant = "main"
    /\ event \in Exits
    /\ position = "null"
    /\ lastSignal = "null"
    /\ hit.pos # "null"

\* C32: every entry that records a stop and a target (main of indicatorV2.ts,
\* CdStrategy.onCandle) has strictly ordered levels: stop < entry < target
\* for a Long, target < entry < stop for a Short, the entry being the close
\* of the bar; the risk distance is never zero or negative.
C32_OrderedLevels ==
    variant \in {"main", "cd"} /\ event = "entry"
        => /\ position \in {"bullish", "bearish"}
           /\ position = "bullish"
                => stopPrice < lastBar[1].close /\ lastBar[1].close < targetPrice
           /\ position = "bearish"
                => targetPrice < lastBar[1].close /\ lastBar[1].close < stopPrice
           /\ Abs(lastBar[1].close - stopPrice) > 0
           /\ Abs(targetPrice - lastBar[1].close)
                = R_MULTIPLE * Abs(lastBar[1].close - stopPrice)

\* C32: main has just entered Short below all earlier closes of the window
C32_Witness ==
    /\ variant = "main"
    /\ event = "entry"
    /\ position = "bearish"
    /\ stopPrice = MaxSeq(priceWindow)
    /\ targetPrice < lastBar[1].close
    /\ lastBar[1].close < stopPrice

\* C33: in the entry-only main and in CdStrategy.onCandle lastSignal changes
\* only at an entry, where it becomes the direction entered, and is never
\* cleared; an entry is never in the direction of lastSignal.  So lastSignal
\* is at all times the direction of the latest entry and consecutive entries
\* alternate in direction, whatever lies between them.
C33_EntriesAlternate ==
    [][(variant \in {"entryOnly", "cd"}) =>
          ( /\ (event' = "entry") =>
                  ( /\ signal' \in {"bullish", "bearish"}
                    /\ signal' # lastSignal
                    /\ lastSignal' = signal' )
            /\ (event' # "entry") => (lastSignal' = lastSignal)
            /\ (lastSignal # "null") => (lastSignal' # "null") )]_vars

\* C33: after a bearish entry of CdStrategy, a raw bearish breakout that every
\* later stage would pass is not entered
C33_Witness ==
    /\ variant = "cd"
    /\ event = "noEntry"
    /\ breakout = "bearish"
    /\ lastSignal = "bearish"
    /\ signal = "none"
    /\ Cascade(fitTrendlinesWindow(cvdWindow), "null", priceWindow[WINDOW_SIZE],
               volumeWindow[WINDOW_SIZE], priceWindow, volumeWindow) = "bearish"

\* C34: in the optimizeSlope with the bail-out counters, noImprove never
\* exceeds the number of halvings the step has undergone, of which the loop
\* condition allows 14; so on a window of K = WINDOW_SIZE values noImprove
\* stays below 5 * K, and a search that bails out there does so on the
\* iteration cap 20 * K.
C34_NoImproveNeverFires ==
    (Bails /\ call.phase \in {"support", "resist"}) =>
        /\ call.st.optStep * (2 ^ call.st.noImprove) <= StepScale
        /\ Len(call.y) = WINDOW_SIZE =>
              /\ call.st.noImprove < WINDOW_SIZE * MaxNoImprovePerBar
              /\ call.st.bailed => call.st.iters >= WINDOW_SIZE * MaxItersPerBar

\* C34: a search with counters on a window of WINDOW_SIZE values has moved
\* its slope and then left its loop on the step, after a run of
\* non-improving iterations, without bailing out
C34_Witness ==
    /\ Bails
    /\ call.phase = "done"
    /\ Len(call.y) = WINDOW_SIZE
    /\ ~call.left[2].bailed
    /\ call.left[2].bestSlope # 0
    /\ call.left[2].noImprove > 1
    /\ call.left[2].optStep * MinStepInv <= StepScale

\* ------------------------------------------------------- streamTradesPaged
\* the paging window in milliseconds (5 * 60 * 1000 in the program, scaled down)
PAGE_MS == 4

\* the records one page holds at most
MaxPage == 2

\* Date.parse(endUtc), in milliseconds after Date.parse(startUtc); the
\* latter is a multiple of 8 ms whose nanosecond count lies in [2^60, 2^61),
\* as the instants of the program's dates do
EndMs == 2 * PAGE_MS + 2

NsPerMs == 10 ^ 6

\* nanoseconds into their millisecond at which records are stamped
SubMs == {0, 1, NsPerMs - 1}

\* Math.floor(Number(rec.hd.ts_event) / 1_000_000) for the record stamped r
\* nanoseconds into millisecond m, in milliseconds after the start.
\* Number() rounds the nanosecond count to the nearest double, a multiple of
\* 2^8 there, ties to the even multiple; the quotient is rounded to the
\* nearest multiple of 2^-12 ms, ties to even; Math.floor drops the fraction.
FloorTsEvent(m, r) ==
    LET rem == (64 * (m % 4) + r) % 256
        odd == ((64 * (m % 8) + r) % 512) >= 256
        moved == IF rem < 128 THEN r - rem
                 ELSE IF rem > 128 THEN r + (256 - rem)
                 ELSE IF odd THEN r + 128
                 ELSE r - 128
        half == NsPerMs \div (2 ^ 13)
    IN IF moved < -half THEN m - 1
       ELSE IF moved >= NsPerMs - half THEN m + 1
       ELSE m

\* "let curStart = Date.parse(startUtc)"
PagerInit ==
    [phase |-> "idle", curStart |-> 0, lastTs |-> 0, reqStart |-> 0,
     reqEnd |-> 0, n |-> 0, edge |-> FALSE, out |-> <<>>]

\* while (curStart < endMs): the request for [curStart, curEnd) is issued
\* and answered, "let lastTs = curStart"
PageRequest ==
    /\ pager.phase = "idle"
    /\ pager.curStart < EndMs
    /\ pager' = [pager EXCEPT
                   !.phase = "reading",
                   !.reqStart = pager.curStart,
                   !.reqEnd = IF pager.curStart + PAGE_MS < EndMs
                              THEN pager.curStart + PAGE_MS ELSE EndMs,
                   !.lastTs = pager.curStart,
                   !.n = 0,
                   !.edge = FALSE,
                   !.out = <<>>]
    /\ UNCHANGED <<loopVars, tape, barVars, call, twin>>

\* the page yields its next record, one stamped at or after the start of
\* the page: lastTs is set from it and the trade is yielded
PageRecord ==
    /\ pager.phase = "reading"
    /\ pager.n < MaxPage
    /\ \E m \in pager.reqStart..(EndMs + 1), r \in SubMs :
          pager' = [pager EXCEPT
                      !.lastTs = FloorTsEvent(m, r),
                      !.n = pager.n + 1,
                      !.edge = FloorTsEvent(m, r) < pager.reqStart,
                      !.out = <<FloorTsEvent(m, r)>>]
    /\ UNCHANGED <<loopVars, tape, barVars, call, twin>>

\* the page is exhausted: "curStart = lastTs + 1"
PageEnd ==
    /\ pager.phase = "reading"
    /\ pager' = [pager EXCEPT !.phase = "idle",
                              !.curStart = pager.lastTs + 1,
                              !.out = <<>>]
    /\ UNCHANGED <<loopVars, tape, barVars, call, twin>>

\* the while condition fails and the generator returns
PageDone ==
    /\ pager.phase = "idle"
    /\ pager.curStart >= EndMs
    /\ pager' = [pager EXCEPT !.phase = "done"]
    /\ UNCHANGED <<loopVars, tape, barVars, call, twin>>

PagerStart ==
    /\ variant = "pager"
    /\ pager = PagerInit
    /\ strongUpdown = TRUE
    /\ call = NoCall
    /\ twin = NoTwin
    /\ BarInit
    /\ LoopInit
    /\ tape = <<>>

PagerNext == PageRequest \/ PageRecord \/ PageEnd \/ PageDone

SpecPager == PagerStart /\ [][PagerNext]_vars

\* C35: the records of every page being stamped at or after the start of the
\* page, the start of the next page is strictly greater than that of the
\* current one, no request is issued with start >= end, and the paging
\* loop ends after finitely many pages (no run goes on for ever).
C35_AsStated ==
    /\ [][(pager.phase = "reading" /\ pager'.phase = "idle")
             => pager'.curStart > pager.reqStart]_vars
    /\ [](pager.phase = "reading"
             => pager.reqStart < pager.reqEnd /\ pager.reqEnd <= EndMs)
    /\ <>[][FALSE]_vars

\* the same steps, for pages whose last record is not brought below the
\* start of the page by the conversion of its stamp
C35_OffTheEdge ==
    /\ [][(pager.phase = "reading" /\ pager'.phase = "idle" /\ ~pager.edge)
             => pager'.curStart > pager.reqStart]_vars
    /\ [](pager.phase = "reading"
             => pager.reqStart < pager.reqEnd /\ pager.reqEnd <= EndMs)

\* a page whose last record is stamped at its start has ended, and the next
\* page starts where this one did
C35_Stuck ==
    /\ pager.phase = "idle"
    /\ pager.n > 0
    /\ pager.curStart = pager.reqStart
    /\ pager.curStart < EndMs

====
